---- MODULE Spec2Model ----
(***************************************************************************)
(* State-machine model of the queue service of taskcluster                 *)
(* (src/unnamed/part_002: class QueueService and class FakeQueueClient).   *)
(*                                                                         *)
(* Time is the millisecond clock `now` (Date.now()).  Every method of the  *)
(* queue client is one atomic step; the asynchronous operations of         *)
(* QueueService are cut at their awaits.                                   *)
(***************************************************************************)
EXTENDS Integers, Sequences, FiniteSets, TLC

VARIABLES
  now,              \* Date.now(), in milliseconds
  ticks,            \* number of clock advances so far
  client_queues,    \* FakeQueueClient.queues:   name -> sequence of messages
  client_metadata,  \* FakeQueueClient.metadata: name -> meta-data
  queues,           \* QueueService.queues: id -> index into attempts, 0 = undefined
  attempts,         \* the promises made by ensurePendingQueue, in creation order
  calls,            \* the ensurePendingQueue calls made: the promise handed out and its outcome
  ready,            \* claimQueueReady / resolvedQueueReady / deadlineQueueReady, by queue name
  nextSlug,         \* source of slugid.v4() values
  createCalls,      \* name -> number of client.createQueue calls issued
  reported,         \* number of monitor.reportError calls
  faults,           \* number of client calls that failed with a service error
  resets,           \* number of runs of the queueResetInterval callback
  preexisting,      \* names of the queues that existed when the service was constructed
  options,          \* the options given to the constructor
  countPendingCache,\* QueueService.countPendingCache: cacheKey -> entry
  countRefreshes,   \* the count promises made by countPendingMessages, in creation order
  countCalls,       \* the countPendingMessages calls made
  putLog,           \* one entry per putPendingMessage call
  delivered,        \* one entry per message handed out by _getMessages
  removed,          \* messageIds whose remove() completed without error
  released,         \* popReceipts whose release() completed without error
  gc                \* the running deleteUnusedWorkerQueues call

vars == <<now, ticks, client_queues, client_metadata, queues, attempts, calls,
          ready, nextSlug, createCalls, reported, faults, resets, preexisting,
          options, countPendingCache, countRefreshes, countCalls,
          putLog, delivered, removed, released, gc>>

cntVars == <<countPendingCache, countRefreshes, countCalls>>
svcVars == <<queues, attempts, calls, ready, createCalls, reported, faults,
             resets, preexisting, options, cntVars>>
msgVars == <<putLog, delivered, removed, released>>

-----------------------------------------------------------------------------
(* Bounds of the model                                                     *)

MaxTicks == 2
MaxMsgs == 1
MaxDeliveries == 2
MaxCalls == 2
MaxIncidents == 1
MaxGcRuns == 1
MaxCounts == 3

\* the clock advances by a millisecond, or by a millisecond more than the
\* lease of a pending poll
Steps == {1, 300001}

-----------------------------------------------------------------------------
(* Constants of the program                                                *)

PRIORITY_TO_CONSTANT ==
  [p \in {"highest", "very-high", "high", "medium", "low", "very-low", "lowest"} |->
     CASE p = "highest"   -> "7"
       [] p = "very-high" -> "6"
       [] p = "high"      -> "5"
       [] p = "medium"    -> "4"
       [] p = "low"       -> "3"
       [] p = "very-low"  -> "2"
       [] p = "lowest"    -> "1"]

PRIORITIES == <<"highest", "very-high", "high", "medium", "low", "very-low", "lowest">>

PendingVisibility == 300
ExpirationVisibility == 600
ExpirationTTL == 604800
PollLimit == 32
MetadataTolerance == 82800000
DeleteAfter == 864000000
DeadlineDelay == 600000
CountMaxAge == 20000
QueueResetInterval == 90000000
MaxBehind == 172800000

\* the options when deadlineDelay is not given
DefaultOptions == [deadlineDelay |-> DeadlineDelay]

\* options of the constructor
prefix == "q"
claimQueue == "claim-queue"
resolvedQueue == "resolved-queue"
deadlineQueue == "deadline-queue"

\* the provisionerId / workerType pairs the model calls the service with
FamilySeq == <<<<"prov1", "wt1">>, <<"wt1", "prov1">>>>
Families == {FamilySeq[i] : i \in DOMAIN FamilySeq}

-----------------------------------------------------------------------------
(* Helpers on functions used as JavaScript objects                         *)

SetKey(f, k, v) == [x \in (DOMAIN f) \cup {k} |-> IF x = k THEN v ELSE f[x]]
DeleteKey(f, k) == [x \in (DOMAIN f) \ {k} |-> f[x]]
Range(s) == {s[i] : i \in DOMAIN s}

Ceil1000(ms) == -((-ms) \div 1000)
Max(a, b) == IF a >= b THEN a ELSE b
Min(a, b) == IF a <= b THEN a ELSE b

\* secondsTo(target, relativeTo)
secondsTo(target, relativeTo) == Max(Ceil1000(target - relativeTo), 1)

\* taskcluster.fromNow(`${n} seconds`) evaluated at time t
fromNow(n, t) == t + n * 1000

-----------------------------------------------------------------------------
(* The message codec of _putMessage / _getMessages                         *)

JSONstringify(message) == <<"json", message>>
JSONparse(text) == text[2]
base64(buf) == <<"base64", buf>>
fromBase64(text) == text[2]

encodeMessage(message) == base64(JSONstringify(message))
decodeMessage(messageText) == JSONparse(fromBase64(messageText))

-----------------------------------------------------------------------------
(* Queue names (ensurePendingQueue)                                        *)

\* sha256 then base32 of the first 15 bytes: a 24 character digest, distinct
\* for the distinct identifiers of the model
hashId(id) == "h(" \o id \o ")"

namePrefix(provisionerId, workerType) ==
  prefix \o "-" \o hashId(provisionerId) \o "-" \o hashId(workerType) \o "-"

names(provisionerId, workerType) ==
  [p \in DOMAIN PRIORITY_TO_CONSTANT |->
     namePrefix(provisionerId, workerType) \o PRIORITY_TO_CONSTANT[p]]

\* the identifiers accepted by /^[A-Za-z0-9_-]{1,38}$/
Identifiers == {"prov1", "wt1"}
IsIdentifier(s) == s \in Identifiers

\* the value of a property that an object does not have
undefined == "undefined"

cacheId(provisionerId, workerType) == provisionerId \o "/" \o workerType

FamilyIds == {cacheId(f[1], f[2]) : f \in Families}
ShardNames == {names(f[1], f[2])[p] : f \in Families, p \in DOMAIN PRIORITY_TO_CONSTANT}
ExpirationNames == {claimQueue, resolvedQueue, deadlineQueue}
AllNames == ShardNames \cup ExpirationNames

-----------------------------------------------------------------------------
(* FakeQueueClient                                                         *)

\* _queue(name) throws QueueNotFound
QueueNotFound(name) == name \notin DOMAIN client_queues

NoMetadata == [provisioner_id |-> "", worker_type |-> "", last_used |-> <<>>]

\* a test that ignores the time the message becomes visible
VisibleUnleased(msg, t) == t <= msg.expiresAfter

\* the test of getMessages on one message at time t
Visible(msg, t) == t > msg.visibleAfter /\ t <= msg.expiresAfter

\* the loop of getMessages over the queue from position i on; slug is the
\* first unused slugid
RECURSIVE getMessagesLoop(_, _, _, _, _, _, _)
getMessagesLoop(queue, i, rv, t, visibilityTime, numberOfMessages, slug) ==
  IF i > Len(queue)
  THEN [queue |-> queue, rv |-> rv]
  ELSE LET msg == queue[i] IN
       IF Visible(msg, t)
       THEN LET receipt == slug + Len(rv)
                leased  == [msg EXCEPT !.visibleAfter = visibilityTime,
                                       !.popReceipt = receipt]
                queue2  == [queue EXCEPT ![i] = leased]
                rv2     == Append(rv, [messageText |-> msg.messageText,
                                       messageId   |-> msg.messageId,
                                       popReceipt  |-> receipt])
            IN  IF Len(rv2) = numberOfMessages
                THEN [queue |-> queue2, rv |-> rv2]
                ELSE getMessagesLoop(queue2, i + 1, rv2, t, visibilityTime,
                                     numberOfMessages, slug)
       ELSE getMessagesLoop(queue, i + 1, rv, t, visibilityTime,
                            numberOfMessages, slug)

\* getMessages taking the visibility timeout for minutes
getMessagesMinutes(queue, t, visibilityTimeout, numberOfMessages, slug) ==
  getMessagesLoop(queue, 1, <<>>, t, fromNow(visibilityTimeout * 60, t),
                  numberOfMessages, slug)

\* getMessages
getMessages(queue, t, visibilityTimeout, numberOfMessages, slug) ==
  getMessagesLoop(queue, 1, <<>>, t, fromNow(visibilityTimeout, t),
                  numberOfMessages, slug)

\* putMessage: the message pushed on the queue
newMessage(text, id, visibilityTimeout, messageTTL, t) ==
  [messageText  |-> text,
   messageId    |-> id,
   visibleAfter |-> fromNow(visibilityTimeout, t),
   expiresAfter |-> fromNow(messageTTL, t),
   popReceipt   |-> 0]

\* an assertion that lets every pop receipt pass
deleteAssertsNothing(queue, messageId, popReceipt) == TRUE

\* deleteMessage: the assertion on the pop receipt
deleteAsserts(queue, messageId, popReceipt) ==
  \A i \in DOMAIN queue :
    queue[i].messageId = messageId => queue[i].popReceipt = popReceipt

\* a filter that keeps every message
deleteFilterKeeps(queue, messageId) == queue

\* deleteMessage: the filter
deleteFilter(queue, messageId) ==
  SelectSeq(queue, LAMBDA m : m.messageId # messageId)

\* updateMessage: the assertion on the pop receipt
updateAsserts(queue, messageId, popReceipt) ==
  \A i \in DOMAIN queue :
    queue[i].messageId = messageId => queue[i].popReceipt = popReceipt

\* updateMessage: the forEach
updateEach(queue, messageText, messageId, visibilityTimeout, t) ==
  [i \in DOMAIN queue |->
     IF queue[i].messageId # messageId
     THEN queue[i]
     ELSE [queue[i] EXCEPT !.messageText = messageText,
                           !.visibleAfter = fromNow(visibilityTimeout, t)]]

\* deleteMessage(name, messageId, popReceipt): the queue it leaves and its error
deleteMessage(queue, messageId, popReceipt) ==
  IF deleteAsserts(queue, messageId, popReceipt)
  THEN [queue |-> deleteFilter(queue, messageId), error |-> "none"]
  ELSE [queue |-> queue, error |-> "AssertionError"]

\* updateMessage(name, messageText, messageId, popReceipt, {visibilityTimeout})
updateMessage(queue, messageText, messageId, popReceipt, visibilityTimeout, t) ==
  IF updateAsserts(queue, messageId, popReceipt)
  THEN [queue |-> updateEach(queue, messageText, messageId, visibilityTimeout, t),
        error |-> "none"]
  ELSE [queue |-> queue, error |-> "AssertionError"]

-----------------------------------------------------------------------------
(* The clock                                                               *)

Tick(d) ==
  /\ ticks < MaxTicks
  /\ now' = now + d
  /\ ticks' = ticks + 1
  /\ UNCHANGED <<client_queues, client_metadata, nextSlug, gc>>
  /\ UNCHANGED svcVars
  /\ UNCHANGED msgVars

-----------------------------------------------------------------------------
(* QueueService: pending messages                                          *)

\* the value of the promise cached for a pair, when it is fulfilled
Ensured(provisionerId, workerType) ==
  LET a == queues[cacheId(provisionerId, workerType)] IN
  a # 0 /\ attempts[a].state = "fulfilled"

\* putPendingMessage: the time to deadline
timeToDeadline(task, t) == secondsTo(task.deadline, t)

\* the queue of the pair with its identifiers swapped
pendingQueueOfSwapped(task) ==
  IF task.priority \in DOMAIN PRIORITY_TO_CONSTANT
  THEN names(task.workerType, task.provisionerId)[task.priority]
  ELSE undefined

\* putPendingMessage: the queue the message is put on
pendingQueueOf(task) ==
  IF task.priority \in DOMAIN PRIORITY_TO_CONSTANT
  THEN names(task.provisionerId, task.workerType)[task.priority]
  ELSE undefined

\* one entry of putLog
PutEntry(kind, queue, messageId, payload, visibility, ttl, outcome, deadline, family, priority) ==
  [kind |-> kind, queue |-> queue, messageId |-> messageId, payload |-> payload,
   at |-> now, visibility |-> visibility, ttl |-> ttl, outcome |-> outcome,
   deadline |-> deadline, family |-> family, priority |-> priority]

\* the number of put calls made so far on the queues of one kind
Puts(kind) == Cardinality({k \in DOMAIN putLog : putLog[k].kind = kind})

NoPayload == [taskId |-> "", runId |-> 0, hintId |-> 0]

\* validateTask(task): the identifiers of the task are strings; the deadline
\* of every task of the model is a Date
validateTask(task) ==
  /\ task.taskId # undefined
  /\ task.provisionerId # undefined
  /\ task.workerType # undefined

\* putPendingMessage(task, runId), called when the pair's queues are ensured
\* or when one of its asserts, or one of ensurePendingQueue, fails
putPendingMessage(task, runId) ==
  /\ Len(putLog) < MaxMsgs
  /\ IF ~validateTask(task)
        \/ ~(IsIdentifier(task.provisionerId) /\ IsIdentifier(task.workerType))
     THEN /\ putLog' = Append(putLog, PutEntry("pending", undefined, 0, NoPayload, 0, 0,
                                               "assert", task.deadline,
                                               <<task.provisionerId, task.workerType>>,
                                               task.priority))
          /\ UNCHANGED <<client_queues, nextSlug>>
     ELSE /\ Ensured(task.provisionerId, task.workerType)
          /\ LET ttl     == timeToDeadline(task, now)
                  queue   == pendingQueueOf(task)
                  hintId  == nextSlug
                  id      == nextSlug + 1
                  payload == [taskId |-> task.taskId, runId |-> runId, hintId |-> hintId]
              IN  IF ttl = 0
                  THEN /\ putLog' = Append(putLog, PutEntry("pending", queue, 0, NoPayload, 0, ttl,
                                                            "skipped", task.deadline,
                                                            <<task.provisionerId, task.workerType>>,
                                                            task.priority))
                       /\ UNCHANGED <<client_queues, nextSlug>>
                  ELSE IF QueueNotFound(queue)
                  THEN /\ putLog' = Append(putLog, PutEntry("pending", queue, 0, payload, 0, ttl,
                                                            "QueueNotFound", task.deadline,
                                                            <<task.provisionerId, task.workerType>>,
                                                            task.priority))
                       /\ nextSlug' = nextSlug + 1
                       /\ UNCHANGED client_queues
                  ELSE /\ client_queues' =
                            [client_queues EXCEPT ![queue] =
                               Append(@, newMessage(encodeMessage(payload), id, 0, ttl, now))]
                       /\ putLog' = Append(putLog, PutEntry("pending", queue, id, payload, 0, ttl,
                                                            "put", task.deadline,
                                                            <<task.provisionerId, task.workerType>>,
                                                            task.priority))
                       /\ nextSlug' = nextSlug + 2
  /\ UNCHANGED <<now, ticks, client_metadata, gc, delivered, removed, released>>
  /\ UNCHANGED svcVars

\* pendingQueues(provisionerId, workerType): the queues polled, by priority
pendingQueues(provisionerId, workerType) ==
  [i \in DOMAIN PRIORITIES |-> names(provisionerId, workerType)[PRIORITIES[i]]]

\* what _getMessages makes of one message of the client, with the count the
\* call was made with and the slug that tells the call from the others
Delivery(kind, queue, family, index, visibility, count, call, m) ==
  [kind |-> kind, queue |-> queue, family |-> family, index |-> index,
   count |-> count, call |-> call,
   messageId |-> m.messageId, popReceipt |-> m.popReceipt,
   messageText |-> m.messageText, payload |-> decodeMessage(m.messageText),
   at |-> now, until |-> fromNow(visibility, now), late |-> {}]

\* the message of a handle is stored with the pop receipt of a later delivery
Superseded(d) ==
  /\ ~QueueNotFound(d.queue)
  /\ \E i \in DOMAIN client_queues[d.queue] :
       /\ client_queues[d.queue][i].messageId = d.messageId
       /\ client_queues[d.queue][i].popReceipt # d.popReceipt

\* the handle after a call of method through it ended with error
Called(d, method, error) == [d EXCEPT !.late = @ \cup {<<method, error>>}]

\* _getMessages(queue, {visibility, count})
GetMessages(kind, queue, family, index, visibility, count) ==
  /\ Cardinality(delivered) < MaxDeliveries
  /\ ~QueueNotFound(queue)
  /\ LET r == getMessages(client_queues[queue], now, visibility, count, nextSlug) IN
       /\ client_queues' = [client_queues EXCEPT ![queue] = r.queue]
       /\ delivered' = delivered \cup
             {Delivery(kind, queue, family, index, visibility, count, nextSlug, r.rv[k]) :
                k \in DOMAIN r.rv}
       /\ nextSlug' = nextSlug + Len(r.rv)
  /\ UNCHANGED <<now, ticks, client_metadata, gc, putLog, removed, released>>
  /\ UNCHANGED svcVars

\* the poll(count) function at position index of pendingQueues(provisionerId, workerType)
poll(provisionerId, workerType, index, count) ==
  /\ Ensured(provisionerId, workerType)
  /\ GetMessages("pending", pendingQueues(provisionerId, workerType)[index],
                 <<provisionerId, workerType>>, index,
                 PendingVisibility, Min(count, PollLimit))

\* remove() of a message handed out by _getMessages
remove(d) ==
  /\ ~QueueNotFound(d.queue)
  /\ deleteAsserts(client_queues[d.queue], d.messageId, d.popReceipt)
  /\ client_queues' = [client_queues EXCEPT ![d.queue] = deleteFilter(@, d.messageId)]
  /\ removed' = removed \cup {d.messageId}
  /\ UNCHANGED <<now, ticks, client_metadata, nextSlug, gc, putLog, delivered, released>>
  /\ UNCHANGED svcVars

\* release() of a message handed out by _getMessages
release(d) ==
  /\ d.kind = "pending"
  /\ ~QueueNotFound(d.queue)
  /\ updateAsserts(client_queues[d.queue], d.messageId, d.popReceipt)
  /\ client_queues' =
       [client_queues EXCEPT ![d.queue] = updateEach(@, d.messageText, d.messageId, 0, now)]
  /\ released' = released \cup {d.popReceipt}
  /\ UNCHANGED <<now, ticks, client_metadata, nextSlug, gc, putLog, delivered, removed>>
  /\ UNCHANGED svcVars

\* remove() of a handle whose message was delivered again since
removeAfterRedelivery(d) ==
  /\ Superseded(d)
  /\ LET r == deleteMessage(client_queues[d.queue], d.messageId, d.popReceipt) IN
       /\ client_queues' = [client_queues EXCEPT ![d.queue] = r.queue]
       /\ removed' = IF r.error = "none" THEN removed \cup {d.messageId} ELSE removed
       /\ delivered' = (delivered \ {d}) \cup {Called(d, "remove", r.error)}
  /\ UNCHANGED <<now, ticks, client_metadata, nextSlug, gc, putLog, released>>
  /\ UNCHANGED svcVars

\* release() of a handle whose message was delivered again since
releaseAfterRedelivery(d) ==
  /\ d.kind = "pending"
  /\ Superseded(d)
  /\ LET r == updateMessage(client_queues[d.queue], d.messageText, d.messageId,
                            d.popReceipt, 0, now) IN
       /\ client_queues' = [client_queues EXCEPT ![d.queue] = r.queue]
       /\ released' = IF r.error = "none" THEN released \cup {d.popReceipt} ELSE released
       /\ delivered' = (delivered \ {d}) \cup {Called(d, "release", r.error)}
  /\ UNCHANGED <<now, ticks, client_metadata, nextSlug, gc, putLog, removed>>
  /\ UNCHANGED svcVars

-----------------------------------------------------------------------------
(* QueueService: the claim, resolved and deadline queues                   *)

\* Date.prototype.toJSON and new Date(string)
toJSON(date) == <<"iso", date>>
newDate(string) == string[2]

\* _putMessage on one of the three queues, called when the queue is ensured
putExpiration(kind, queue, payload, visibility, deadline) ==
  /\ Puts(kind) < MaxMsgs
  /\ ready[queue] = "fulfilled"
  /\ IF QueueNotFound(queue)
     THEN /\ putLog' = Append(putLog, PutEntry(kind, queue, 0, payload, visibility,
                                               ExpirationTTL, "QueueNotFound", deadline, <<>>, ""))
          /\ UNCHANGED <<client_queues, nextSlug>>
     ELSE /\ client_queues' =
               [client_queues EXCEPT ![queue] =
                  Append(@, newMessage(encodeMessage(payload), nextSlug, visibility,
                                       ExpirationTTL, now))]
          /\ putLog' = Append(putLog, PutEntry(kind, queue, nextSlug, payload, visibility,
                                               ExpirationTTL, "put", deadline, <<>>, ""))
          /\ nextSlug' = nextSlug + 1
  /\ UNCHANGED <<now, ticks, client_metadata, gc, delivered, removed, released>>
  /\ UNCHANGED svcVars

\* a put call that fails one of its asserts, before the queue is ensured
putAssert(kind, queue, payload) ==
  /\ Puts(kind) < MaxMsgs
  /\ putLog' = Append(putLog, PutEntry(kind, queue, 0, payload, 0, 0, "assert", 0, <<>>, ""))
  /\ UNCHANGED <<now, ticks, client_queues, client_metadata, nextSlug, gc,
                 delivered, removed, released>>
  /\ UNCHANGED svcVars

\* assert(taskId), assert(taskGroupId), assert(schedulerId): given and not empty
Given(s) == s # undefined /\ s # ""

\* putClaimMessage with no visibility delay
putClaimMessageVisible(taskId, runId, takenUntil) ==
  LET payload == [taskId |-> taskId, runId |-> runId, takenUntil |-> toJSON(takenUntil)] IN
  IF ~Given(taskId)
  THEN putAssert("claim", claimQueue, payload)
  ELSE putExpiration("claim", claimQueue, payload, 0, takenUntil)

putClaimMessage(taskId, runId, takenUntil) ==
  LET payload == [taskId |-> taskId, runId |-> runId, takenUntil |-> toJSON(takenUntil)] IN
  IF ~Given(taskId)
  THEN putAssert("claim", claimQueue, payload)
  ELSE putExpiration("claim", claimQueue, payload, secondsTo(takenUntil, now), takenUntil)

\* the resolutions putResolvedMessage accepts
IsResolution(resolution) == resolution \in {"completed", "failed", "exception"}

putResolvedMessage(taskId, taskGroupId, schedulerId, resolution) ==
  LET payload == [taskId |-> taskId, taskGroupId |-> taskGroupId,
                  schedulerId |-> schedulerId, resolution |-> resolution] IN
  IF ~(Given(taskId) /\ Given(taskGroupId) /\ Given(schedulerId) /\ IsResolution(resolution))
  THEN putAssert("resolved", resolvedQueue, payload)
  ELSE putExpiration("resolved", resolvedQueue, payload, 0, 0)

putDeadlineMessage(taskId, taskGroupId, schedulerId, deadline) ==
  LET payload == [taskId |-> taskId, taskGroupId |-> taskGroupId,
                  schedulerId |-> schedulerId, deadline |-> toJSON(deadline)] IN
  IF ~(Given(taskId) /\ Given(taskGroupId) /\ Given(schedulerId))
  THEN putAssert("deadline", deadlineQueue, payload)
  ELSE putExpiration("deadline", deadlineQueue, payload,
                     secondsTo(deadline, now) + (options.deadlineDelay \div 1000), deadline)

pollClaimQueue ==
  /\ ready[claimQueue] = "fulfilled"
  /\ GetMessages("claim", claimQueue, <<>>, 0, ExpirationVisibility, PollLimit)

pollResolvedQueue ==
  /\ ready[resolvedQueue] = "fulfilled"
  /\ GetMessages("resolved", resolvedQueue, <<>>, 0, ExpirationVisibility, PollLimit)

pollDeadlineQueue ==
  /\ ready[deadlineQueue] = "fulfilled"
  /\ GetMessages("deadline", deadlineQueue, <<>>, 0, ExpirationVisibility, PollLimit)

-----------------------------------------------------------------------------
(* The messages of ensured queues: put, poll, remove and release           *)

GcIdle == [pc |-> "idle", now |-> 0, candidates |-> {}, deleting |-> {},
           deleted |-> 0, runs |-> 0, gone |-> {}, marker |-> 0, pageSize |-> 0,
           failed |-> {}]

ShardPcDone == [i \in DOMAIN PRIORITIES |-> "done"]

FreshMetadata(provisionerId, workerType, t) ==
  [provisioner_id |-> provisionerId, worker_type |-> workerType, last_used |-> <<t>>]

FamilyOfQueue(name) ==
  CHOOSE f \in Families : \E p \in DOMAIN PRIORITY_TO_CONSTANT : names(f[1], f[2])[p] = name

\* the tasks, run ids and counts the model calls the service with
Tasks ==
  {[taskId |-> "t1", provisionerId |-> "prov1", workerType |-> "wt1",
    priority |-> "highest", deadline |-> 900000],
   [taskId |-> "t2", provisionerId |-> "wt1", workerType |-> "prov1",
    priority |-> "low", deadline |-> -5000]}
RunIds == {0}
Counts == {0, 1, 33}

\* the constructor's countPendingCache, and no countPendingMessages call made
NotCounted ==
  /\ countPendingCache = [k \in {} |-> 0]
  /\ countRefreshes = <<>>
  /\ countCalls = <<>>

\* the state once ensurePendingQueue of every pair and the ensures of the
\* three queues have completed on a new client
\* the service with its queues ensured, whatever its options
InitEnsured ==
  /\ NotCounted
  /\ now = 0
  /\ ticks = 0
  /\ client_queues = [n \in AllNames |-> <<>>]
  /\ client_metadata =
       [n \in AllNames |->
          IF n \in ShardNames
          THEN FreshMetadata(FamilyOfQueue(n)[1], FamilyOfQueue(n)[2], 0)
          ELSE NoMetadata]
  /\ attempts = [i \in DOMAIN FamilySeq |->
                   [provisionerId |-> FamilySeq[i][1], workerType |-> FamilySeq[i][2],
                    pc |-> ShardPcDone, state |-> "fulfilled"]]
  /\ queues = [id \in FamilyIds |->
                 CHOOSE i \in DOMAIN FamilySeq : cacheId(FamilySeq[i][1], FamilySeq[i][2]) = id]
  /\ calls = <<>>
  /\ ready = [n \in ExpirationNames |-> "fulfilled"]
  /\ nextSlug = 1
  /\ createCalls = [n \in AllNames |-> 1]
  /\ reported = 0
  /\ faults = 0
  /\ resets = 0
  /\ preexisting = {}
  /\ putLog = <<>>
  /\ delivered = {}
  /\ removed = {}
  /\ released = {}
  /\ gc = GcIdle

\* the count of the polls that take the messages one at a time
OneByOne == {1}

NextMsg ==
  \/ \E d \in Steps : Tick(d)
  \/ \E task \in Tasks, runId \in RunIds : putPendingMessage(task, runId)
  \/ \E f \in Families, i \in DOMAIN PRIORITIES, count \in OneByOne : poll(f[1], f[2], i, count)
  \/ \E d \in delivered : remove(d)
  \/ \E d \in delivered : release(d)

InitMsg == InitEnsured /\ options = DefaultOptions

SpecMsg == InitMsg /\ [][NextMsg]_vars

\* the leases of a pending queue and of the claim queue side by side
LeaseTask == CHOOSE task \in Tasks : task.taskId = "t1"

NextLease ==
  \/ \E d \in Steps : Tick(d)
  \/ putPendingMessage(LeaseTask, 0)
  \/ \E i \in DOMAIN PRIORITIES, count \in OneByOne :
       poll(LeaseTask.provisionerId, LeaseTask.workerType, i, count)
  \/ putLog = <<>> /\ putClaimMessage("t1", 0, -5000)
  \/ pollClaimQueue
  \/ \E d \in delivered : remove(d)
  \/ \E d \in delivered : release(d)

SpecLease == InitMsg /\ [][NextLease]_vars

\* handles that outlive the lease of their delivery
NextStale ==
  \/ \E d \in Steps : Tick(d)
  \/ putPendingMessage(LeaseTask, 0)
  \/ \E i \in DOMAIN PRIORITIES, count \in OneByOne :
       poll(LeaseTask.provisionerId, LeaseTask.workerType, i, count)
  \/ putLog = <<>> /\ putClaimMessage("t1", 0, -5000)
  \/ pollClaimQueue
  \/ \E d \in delivered : remove(d)
  \/ \E d \in delivered : release(d)
  \/ \E d \in delivered : removeAfterRedelivery(d)
  \/ \E d \in delivered : releaseAfterRedelivery(d)

SpecStale == InitMsg /\ [][NextStale]_vars

\* polls of every count, on the queues of both pairs
NextPoll ==
  \/ \E d \in Steps : Tick(d)
  \/ \E task \in Tasks, runId \in RunIds : putPendingMessage(task, runId)
  \/ \E f \in Families, i \in DOMAIN PRIORITIES, count \in Counts : poll(f[1], f[2], i, count)
  \/ \E d \in delivered : release(d)

SpecPoll == InitMsg /\ [][NextPoll]_vars

\* the times given to putClaimMessage and putDeadlineMessage: 5 seconds
\* before the service starts, and half a second after, or a second before,
\* the long step of the clock
TakenUntils == {-5000, 300500}
Deadlines == {-5000, 299000}

\* the runs claimed
ClaimRuns == {0, 1}

NextClaim ==
  \/ \E d \in Steps : Tick(d)
  \/ \E runId \in ClaimRuns, takenUntil \in TakenUntils \cup {500} :
       putClaimMessage("t1", runId, takenUntil)
  \/ pollClaimQueue
  \/ \E d \in delivered : remove(d)

SpecClaim == InitMsg /\ [][NextClaim]_vars

NextExpiry ==
  \/ \E d \in Steps : Tick(d)
  \/ \E takenUntil \in TakenUntils : putClaimMessage("t1", 0, takenUntil)
  \/ \E deadline \in Deadlines : putDeadlineMessage("t1", "g1", "s1", deadline)
  \/ pollClaimQueue
  \/ pollDeadlineQueue
  \/ \E d \in delivered : remove(d)

\* calls whose arguments pass the asserts, and calls whose arguments do not:
\* a priority that is none of the 7, a provisionerId with a slash, a
\* resolution that is none of the 3, and a taskId that is not given
ValidateTasks ==
  {[taskId |-> "t1", provisionerId |-> "prov1", workerType |-> "wt1",
    priority |-> "highest", deadline |-> 900000],
   [taskId |-> "t1", provisionerId |-> "prov1", workerType |-> "wt1",
    priority |-> "urgent", deadline |-> 900000],
   [taskId |-> "t1", provisionerId |-> "prov/1", workerType |-> "wt1",
    priority |-> "highest", deadline |-> 900000]}
ValidateResolutions == {"completed", "running"}
ValidateTaskIds == {"t1", ""}

NextValidate ==
  \/ \E d \in Steps : Tick(d)
  \/ \E task \in ValidateTasks : putPendingMessage(task, 0)
  \/ \E taskId \in ValidateTaskIds : putClaimMessage(taskId, 0, -5000)
  \/ \E resolution \in ValidateResolutions : putResolvedMessage("t1", "g1", "s1", resolution)
  \/ \E taskId \in ValidateTaskIds : putDeadlineMessage(taskId, "g1", "s1", -5000)

SpecValidate == InitMsg /\ [][NextValidate]_vars

\* the default deadlineDelay, and one of a second and a half
DeadlineDelays == {DeadlineDelay, 1500}

InitExpiry == InitEnsured /\ \E delay \in DeadlineDelays : options = [deadlineDelay |-> delay]

SpecExpiry == InitExpiry /\ [][NextExpiry]_vars

-----------------------------------------------------------------------------
(* QueueService: ensurePendingQueue and _ensureQueueAndMetadata            *)
(*                                                                         *)
(* The 7 getMetadata calls are made by the call of ensurePendingQueue; the *)
(* client call that follows each of them (createQueue or setMetadata) is a *)
(* step of its own, and these steps of one promise run in the order of     *)
(* the shards.                                                             *)

\* meta-data that is up to date when it is exactly 23 hours old
UpToDateAt23Hours(metadata, provisionerId, workerType, t) ==
  /\ metadata.provisioner_id = provisionerId
  /\ metadata.worker_type = workerType
  /\ Len(metadata.last_used) = 1
  /\ metadata.last_used[1] >= t - MetadataTolerance

\* _ensureQueueAndMetadata: the meta-data read is up to date
UpToDate(metadata, provisionerId, workerType, t) ==
  /\ metadata.provisioner_id = provisionerId
  /\ metadata.worker_type = workerType
  /\ Len(metadata.last_used) = 1
  /\ metadata.last_used[1] > t - MetadataTolerance

\* _ensureQueueAndMetadata: what follows the answer of getMetadata
AfterGetMetadata(queue, provisionerId, workerType) ==
  IF QueueNotFound(queue)
  THEN "createQueue"
  ELSE IF UpToDate(client_metadata[queue], provisionerId, workerType, now)
       THEN "done"
       ELSE "setMetadata"

\* Promise.all over the 7 shards: rejected by the first failure, fulfilled
\* when all are done
Settle(pc, state) ==
  IF state # "pending" THEN state
  ELSE IF \E i \in DOMAIN pc : pc[i] = "failed" THEN "rejected"
  ELSE IF \A i \in DOMAIN pc : pc[i] = "done" THEN "fulfilled"
  ELSE "pending"

\* what a caller awaiting the promise gets
ResultFor(state, provisionerId, workerType) ==
  CASE state = "fulfilled" -> [status |-> "ok", value |-> names(provisionerId, workerType)]
    [] state = "rejected"  -> [status |-> "error", value |-> <<>>]
    [] OTHER               -> [status |-> "none", value |-> <<>>]

\* ensurePendingQueue without the cache of promises
cachedNever(id) == 0

\* ensurePendingQueue: the promise found in the cache, 0 if there is none
cached(id) == queues[id]

\* a catch handler that leaves the rejected promise in the cache
catchKeeps(cache, id) == cache

\* ensurePendingQueue: the catch handler of the promise
catchEvicts(cache, id) == [cache EXCEPT ![id] = 0]

\* the service errors and the resets of the cache so far
Incidents == faults + resets

\* the getMetadata call that fails with a service error, if one does
Failing == {{}} \cup (IF Incidents < MaxIncidents THEN {{i} : i \in DOMAIN PRIORITIES} ELSE {})

\* an earlier call of ensurePendingQueue has not been answered
Overlaps == \E j \in DOMAIN calls : calls[j].result.status = "none"

ensurePendingQueue(provisionerId, workerType) ==
  /\ Len(calls) < MaxCalls
  /\ LET id == cacheId(provisionerId, workerType) IN
     IF cached(id) # 0
     THEN /\ calls' = Append(calls,
                [id |-> id, attempt |-> cached(id), how |-> attempts[cached(id)].state,
                 overlap |-> Overlaps,
                 result |-> ResultFor(attempts[cached(id)].state, provisionerId, workerType)])
          /\ UNCHANGED <<queues, attempts, reported, faults>>
     ELSE IF ~(IsIdentifier(provisionerId) /\ IsIdentifier(workerType))
     THEN /\ calls' = Append(calls,
                [id |-> id, attempt |-> 0, how |-> "assert", overlap |-> Overlaps,
                 result |-> [status |-> "error", value |-> <<>>]])
          /\ UNCHANGED <<queues, attempts, reported, faults>>
     ELSE \E failing \in Failing :
               LET qn    == pendingQueues(provisionerId, workerType)
                   pc    == [i \in DOMAIN PRIORITIES |->
                               IF i \in failing
                               THEN "failed"
                               ELSE AfterGetMetadata(qn[i], provisionerId, workerType)]
                   state == Settle(pc, "pending")
                   a     == Len(attempts) + 1
                   set   == [queues EXCEPT ![id] = a]
               IN  /\ attempts' = Append(attempts,
                          [provisionerId |-> provisionerId, workerType |-> workerType,
                           pc |-> pc, state |-> state])
                   /\ queues' = IF state = "rejected" THEN catchEvicts(set, id) ELSE set
                   /\ reported' = reported + (IF state = "rejected" THEN 1 ELSE 0)
                   /\ faults' = faults + Cardinality(failing)
                   /\ calls' = Append(calls,
                          [id |-> id, attempt |-> a, how |-> "created", overlap |-> Overlaps,
                           result |-> ResultFor(state, provisionerId, workerType)])
  /\ UNCHANGED <<now, ticks, client_queues, client_metadata, ready, nextSlug, createCalls,
                 resets, preexisting, options, cntVars, gc>>
  /\ UNCHANGED msgVars

\* the shard of a promise whose client call is made next
Unfinished(a) == {i \in DOMAIN PRIORITIES : attempts[a].pc[i] \in {"createQueue", "setMetadata"}}
NextShard(a) == CHOOSE i \in Unfinished(a) : \A j \in Unfinished(a) : i <= j

\* _ensureQueueAndMetadata of shard i of promise a returns or throws
FinishShard(a, i, position, reports) ==
  LET att   == attempts[a]
      pc    == [att.pc EXCEPT ![i] = position]
      state == Settle(pc, att.state)
      id    == cacheId(att.provisionerId, att.workerType)
      rejectedNow == att.state = "pending" /\ state = "rejected"
  IN  /\ attempts' = [attempts EXCEPT ![a] = [att EXCEPT !.pc = pc, !.state = state]]
      /\ queues' = IF rejectedNow THEN catchEvicts(queues, id) ELSE queues
      /\ reported' = reported + reports + (IF rejectedNow THEN 1 ELSE 0)
      /\ calls' = [k \in DOMAIN calls |->
                     IF calls[k].attempt = a /\ calls[k].result.status = "none"
                     THEN [calls[k] EXCEPT
                             !.result = ResultFor(state, att.provisionerId, att.workerType)]
                     ELSE calls[k]]

\* the outcomes of a client call: done, or a service error while errors are left
Outcomes(errors) == {"ok"} \cup (IF Incidents < MaxIncidents THEN errors ELSE {})

\* a catch handler of createQueue that reports every error
createQueueReportsAll(code) == 1

\* _ensureQueueAndMetadata: the reportError calls made for an error of createQueue
createQueueReports(code) == IF code = "QueueAlreadyExists" THEN 0 ELSE 1

\* createQueue of a queue that exists by now: the service may answer with
\* QueueAlreadyExists, which is no service failure
createQueueConflicts(queue) ==
  IF QueueNotFound(queue) THEN {} ELSE {"QueueAlreadyExists"}

\* _ensureQueueAndMetadata: createQueue after QueueNotFound
ensureCreateQueue(a) ==
  /\ Unfinished(a) # {}
  /\ attempts[a].pc[NextShard(a)] = "createQueue"
  /\ LET i     == NextShard(a)
         att   == attempts[a]
         queue == pendingQueues(att.provisionerId, att.workerType)[i]
     IN  /\ createCalls' = [createCalls EXCEPT ![queue] = @ + 1]
         /\ \E outcome \in Outcomes({"Other"}) \cup createQueueConflicts(queue) :
              CASE outcome = "ok" ->
                     /\ client_queues' = SetKey(client_queues, queue, <<>>)
                     /\ client_metadata' =
                          SetKey(client_metadata, queue,
                                 FreshMetadata(att.provisionerId, att.workerType, now))
                     /\ faults' = faults
                     /\ FinishShard(a, i, "done", 0)
                [] outcome = "QueueAlreadyExists" ->
                     /\ UNCHANGED <<client_queues, client_metadata, faults>>
                     /\ FinishShard(a, i, "done", createQueueReports(outcome))
                [] outcome = "Other" ->
                     /\ UNCHANGED <<client_queues, client_metadata>>
                     /\ faults' = faults + 1
                     /\ FinishShard(a, i, "failed", createQueueReports(outcome))
  /\ UNCHANGED <<now, ticks, ready, nextSlug, resets, preexisting, options, cntVars, gc>>
  /\ UNCHANGED msgVars

\* _ensureQueueAndMetadata: setMetadata after meta-data that is not up to date
ensureSetMetadata(a) ==
  /\ Unfinished(a) # {}
  /\ attempts[a].pc[NextShard(a)] = "setMetadata"
  /\ LET i     == NextShard(a)
         att   == attempts[a]
         queue == pendingQueues(att.provisionerId, att.workerType)[i]
     IN  IF QueueNotFound(queue)
         THEN /\ UNCHANGED <<client_metadata, faults>>
              /\ FinishShard(a, i, "failed", 0)
         ELSE \E outcome \in Outcomes({"Other"}) :
              CASE outcome = "ok" ->
                     /\ client_metadata' =
                          [client_metadata EXCEPT ![queue] =
                             FreshMetadata(att.provisionerId, att.workerType, now)]
                     /\ faults' = faults
                     /\ FinishShard(a, i, "done", 0)
                [] outcome = "Other" ->
                     /\ UNCHANGED client_metadata
                     /\ faults' = faults + 1
                     /\ FinishShard(a, i, "failed", 0)
  /\ UNCHANGED <<now, ticks, client_queues, ready, nextSlug, createCalls, resets,
                 preexisting, options, cntVars, gc>>
  /\ UNCHANGED msgVars

\* the callback of queueResetInterval
resetQueues ==
  /\ Incidents < MaxIncidents
  /\ queues' = [id \in DOMAIN queues |-> 0]
  /\ resets' = resets + 1
  /\ UNCHANGED <<now, ticks, client_queues, client_metadata, attempts, calls, ready,
                 nextSlug, createCalls, reported, faults, preexisting, options, cntVars, gc>>
  /\ UNCHANGED msgVars

\* the pair whose queues are ensured, and what is found of them when the
\* service is constructed: none, or all 7 with meta-data that is 23 hours old
EnsureFamily == FamilySeq[1]
Scenarios == {"absent", "stale"}

StaleMetadata(provisionerId, workerType, t) ==
  [provisioner_id |-> provisionerId, worker_type |-> workerType,
   last_used |-> <<t - MetadataTolerance>>]

InitEnsure ==
  /\ now = 0
  /\ ticks = 0
  /\ \E scenario \in Scenarios :
       /\ preexisting = {n \in ShardNames :
                            FamilyOfQueue(n) = EnsureFamily /\ scenario = "stale"}
       /\ client_queues = [n \in preexisting |-> <<>>]
       /\ client_metadata =
            [n \in preexisting |->
               StaleMetadata(FamilyOfQueue(n)[1], FamilyOfQueue(n)[2], 0)]
  /\ options = DefaultOptions
  /\ NotCounted
  /\ attempts = <<>>
  /\ queues = [id \in FamilyIds |-> 0]
  /\ calls = <<>>
  /\ ready = [n \in ExpirationNames |-> "null"]
  /\ nextSlug = 1
  /\ createCalls = [n \in AllNames |-> 0]
  /\ reported = 0
  /\ faults = 0
  /\ resets = 0
  /\ putLog = <<>>
  /\ delivered = {}
  /\ removed = {}
  /\ released = {}
  /\ gc = GcIdle

NextEnsure ==
  \/ ensurePendingQueue(EnsureFamily[1], EnsureFamily[2])
  \/ \E a \in DOMAIN attempts : ensureCreateQueue(a)
  \/ \E a \in DOMAIN attempts : ensureSetMetadata(a)
  \/ resetQueues

SpecEnsure == InitEnsure /\ [][NextEnsure]_vars

\* the ensures of a pair, the resets of the cache and a put for the pair
NextOverwrite ==
  \/ ensurePendingQueue(EnsureFamily[1], EnsureFamily[2])
  \/ \E a \in DOMAIN attempts : ensureCreateQueue(a)
  \/ \E a \in DOMAIN attempts : ensureSetMetadata(a)
  \/ resetQueues
  \/ putPendingMessage(LeaseTask, 0)

SpecOverwrite == InitEnsure /\ [][NextOverwrite]_vars

\* a timer that fires an hour late each time
ResetAtLate(k) == k * (QueueResetInterval + 3600000)

\* setInterval: the time of the k-th call of the callback of
\* queueResetInterval, the service being constructed at time 0
ResetAt(k) == k * QueueResetInterval

\* the clock moves on, no further than the next call of the callback, while
\* no client call of an ensure is outstanding
TickToReset(d) ==
  /\ now + d <= ResetAt(resets + 1)
  /\ \A a \in DOMAIN attempts : Unfinished(a) = {}
  /\ Tick(d)

\* the callback of queueResetInterval, called when its time has come
queueResetInterval ==
  /\ now = ResetAt(resets + 1)
  /\ queues' = [id \in DOMAIN queues |-> 0]
  /\ resets' = resets + 1
  /\ UNCHANGED <<now, ticks, client_queues, client_metadata, attempts, calls, ready,
                 nextSlug, createCalls, reported, faults, preexisting, options, cntVars, gc>>
  /\ UNCHANGED msgVars

\* the 7 queues of the pair are found with meta-data written 23 hours, or a
\* millisecond less, before the service is constructed
AgeLastUsed == {0 - MetadataTolerance, 1 - MetadataTolerance}
AgeSteps == {2, QueueResetInterval}

InitAge ==
  /\ now = 0
  /\ ticks = 0
  /\ preexisting = {n \in ShardNames : FamilyOfQueue(n) = EnsureFamily}
  /\ client_queues = [n \in preexisting |-> <<>>]
  /\ \E t \in AgeLastUsed :
       client_metadata =
         [n \in preexisting |-> FreshMetadata(EnsureFamily[1], EnsureFamily[2], t)]
  /\ options = DefaultOptions
  /\ NotCounted
  /\ attempts = <<>>
  /\ queues = [id \in FamilyIds |-> 0]
  /\ calls = <<>>
  /\ ready = [n \in ExpirationNames |-> "null"]
  /\ nextSlug = 1
  /\ createCalls = [n \in AllNames |-> 0]
  /\ reported = 0
  /\ faults = 0
  /\ resets = 0
  /\ putLog = <<>>
  /\ delivered = {}
  /\ removed = {}
  /\ released = {}
  /\ gc = GcIdle

NextAge ==
  \/ \E d \in AgeSteps : TickToReset(d)
  \/ queueResetInterval
  \/ ensurePendingQueue(EnsureFamily[1], EnsureFamily[2])
  \/ \E a \in DOMAIN attempts : ensureSetMetadata(a)

SpecAge == InitAge /\ [][NextAge]_vars

-----------------------------------------------------------------------------
(* QueueService: ensureClaimQueue, ensureResolvedQueue, ensureDeadlineQueue *)
(*                                                                         *)
(* ready[queue] is "null", or the state of the promise kept in             *)
(* claimQueueReady, resolvedQueueReady or deadlineQueueReady: "creating"   *)
(* and "failing" are a pending promise that will be fulfilled, or          *)
(* rejected by a service error; "fulfilled" is a fulfilled one.            *)

\* ensure*Queue without the check of the promise kept
readyNever(queue) == "null"

\* ensure*Queue: the promise kept
readyCached(queue) == ready[queue]

\* what a caller awaiting the promise gets so far
ReadyResult(state) ==
  CASE state = "fulfilled" -> [status |-> "ok", value |-> <<>>]
    [] state = "null"      -> [status |-> "error", value |-> <<>>]
    [] OTHER               -> [status |-> "none", value |-> <<>>]

\* the call of ensureClaimQueue, ensureResolvedQueue or ensureDeadlineQueue
\* that a put or poll function starts with
ensureExpirationQueue(queue) ==
  /\ Len(calls) < MaxCalls
  /\ IF readyCached(queue) # "null"
     THEN /\ calls' = Append(calls,
                [id |-> queue, attempt |-> createCalls[queue],
                 how |-> IF ready[queue] = "fulfilled" THEN "fulfilled" ELSE "pending",
                 overlap |-> Overlaps,
                 result |-> ReadyResult(ready[queue])])
          /\ UNCHANGED <<client_queues, client_metadata, ready, createCalls, faults>>
     ELSE /\ createCalls' = [createCalls EXCEPT ![queue] = @ + 1]
          /\ calls' = Append(calls,
                [id |-> queue, attempt |-> createCalls[queue] + 1, how |-> "created",
                 overlap |-> Overlaps, result |-> ReadyResult("creating")])
          /\ \E outcome \in Outcomes({"Other"}) :
               IF outcome = "ok"
               THEN /\ client_queues' = SetKey(client_queues, queue, <<>>)
                    /\ client_metadata' = SetKey(client_metadata, queue, NoMetadata)
                    /\ ready' = [ready EXCEPT ![queue] = "creating"]
                    /\ faults' = faults
               ELSE /\ UNCHANGED <<client_queues, client_metadata>>
                    /\ ready' = [ready EXCEPT ![queue] = "failing"]
                    /\ faults' = faults + 1
  /\ UNCHANGED <<now, ticks, queues, attempts, nextSlug, reported, resets, preexisting,
                 options, cntVars, gc>>
  /\ UNCHANGED msgVars

\* the promise of createQueue is fulfilled, or is rejected and the catch
\* handler runs
readySettles(queue) ==
  /\ ready[queue] \in {"creating", "failing"}
  /\ ready' = [ready EXCEPT ![queue] = IF @ = "creating" THEN "fulfilled" ELSE "null"]
  /\ calls' = [k \in DOMAIN calls |->
                 IF calls[k].id = queue /\ calls[k].result.status = "none"
                 THEN [calls[k] EXCEPT !.result = ReadyResult(ready'[queue])]
                 ELSE calls[k]]
  /\ UNCHANGED <<now, ticks, client_queues, client_metadata, queues, attempts, nextSlug,
                 createCalls, reported, faults, resets, preexisting, options, cntVars, gc>>
  /\ UNCHANGED msgVars

\* the service as constructed, with no queue at the client
InitReady ==
  /\ now = 0
  /\ ticks = 0
  /\ client_queues = <<>>
  /\ client_metadata = <<>>
  /\ options = DefaultOptions
  /\ NotCounted
  /\ attempts = <<>>
  /\ queues = [id \in FamilyIds |-> 0]
  /\ calls = <<>>
  /\ ready = [n \in ExpirationNames |-> "null"]
  /\ nextSlug = 1
  /\ createCalls = [n \in AllNames |-> 0]
  /\ reported = 0
  /\ faults = 0
  /\ resets = 0
  /\ preexisting = {}
  /\ putLog = <<>>
  /\ delivered = {}
  /\ removed = {}
  /\ released = {}
  /\ gc = GcIdle

NextReady ==
  \/ \E queue \in ExpirationNames : ensureExpirationQueue(queue)
  \/ \E queue \in ExpirationNames : readySettles(queue)
  \/ putClaimMessage("t1", 0, -5000)
  \/ pollClaimQueue

SpecReady == InitReady /\ [][NextReady]_vars

-----------------------------------------------------------------------------
(* QueueService: deleteUnusedWorkerQueues                                  *)
(*                                                                         *)
(* gc.candidates are the queues whose getMetadata call is to be made,      *)
(* gc.deleting those whose deleteQueue call is to be made; gc.gone records *)
(* each queue deleted with the meta-data and the message count it had,     *)
(* gc.failed the queues whose getMetadata or deleteQueue call failed.      *)
(* gc.pageSize is the page size of the client's listQueues, 0 for the one  *)
(* page of FakeQueueClient; gc.marker is the marker of the next page.      *)

\* a filter that compares last_used with now itself
deleteIfNotUsedSinceNow(t) == t

\* deleteUnusedWorkerQueues: deleteIfNotUsedSince
deleteIfNotUsedSince(t) == t - DeleteAfter

\* deleteUnusedWorkerQueues: the filter of the queues listed
MarkedForDeletion(metadata, t) ==
  \/ metadata.provisioner_id = ""
  \/ metadata.worker_type = ""
  \/ Len(metadata.last_used) # 1
  \/ metadata.last_used[1] < deleteIfNotUsedSince(t)

\* FakeQueueClient.listQueues: every queue, whatever the prefix, in one page
listQueues == DOMAIN client_queues

\* the order in which a client that pages lists the queues
QueueOrder ==
  pendingQueues("prov1", "wt1") \o pendingQueues("wt1", "prov1")
    \o <<claimQueue, resolvedQueue, deadlineQueue>>

\* the queues after the marker, in the order of the listing
Listed(marker) ==
  {i \in DOMAIN QueueOrder : i > marker /\ QueueOrder[i] \in listQueues}

\* listQueues({marker, ..}) of a client with pages of pageSize queues: the
\* positions of the page, and nextMarker (0 for undefined)
PagePositions(marker, pageSize) ==
  IF pageSize = 0
  THEN Listed(marker)
  ELSE {i \in Listed(marker) : Cardinality({j \in Listed(marker) : j < i}) < pageSize}

nextMarker(marker, pageSize) ==
  IF PagePositions(marker, pageSize) = Listed(marker)
  THEN 0
  ELSE CHOOSE i \in PagePositions(marker, pageSize) :
         \A j \in PagePositions(marker, pageSize) : j <= i

\* the queues of one page that the filter keeps
PageCandidates(marker, pageSize, t) ==
  {n \in {QueueOrder[i] : i \in PagePositions(marker, pageSize)} :
     MarkedForDeletion(client_metadata[n], t)}

\* FakeQueueClient.getMetadata: messageCount
messageCount(name) == Len(client_queues[name])

\* deleteUnusedWorkerQueues(now) up to the calls of getMetadata for the
\* first page
GcStart ==
  /\ gc.pc = "idle"
  /\ gc.runs < MaxGcRuns
  /\ gc' = [gc EXCEPT !.pc = "deleting",
                       !.now = now,
                       !.candidates = PageCandidates(0, gc.pageSize, now),
                       !.marker = nextMarker(0, gc.pageSize),
                       !.deleting = {},
                       !.failed = {},
                       !.deleted = 0]
  /\ UNCHANGED <<now, ticks, client_queues, client_metadata, nextSlug>>
  /\ UNCHANGED svcVars
  /\ UNCHANGED msgVars

\* getMetadata answers for a queue marked for deletion, or fails
GcCount(name) ==
  /\ gc.pc = "deleting"
  /\ name \in gc.candidates
  /\ \E outcome \in Outcomes({"Other"}) :
       IF QueueNotFound(name) \/ outcome = "Other"
       THEN /\ gc' = [gc EXCEPT !.candidates = @ \ {name},
                                 !.failed = @ \cup {name}]
            /\ faults' = faults + (IF QueueNotFound(name) THEN 0 ELSE 1)
       ELSE /\ gc' = [gc EXCEPT !.candidates = @ \ {name},
                                 !.deleting = IF messageCount(name) > 0
                                              THEN @
                                              ELSE @ \cup {name}]
            /\ faults' = faults
  /\ UNCHANGED <<now, ticks, client_queues, client_metadata, nextSlug>>
  /\ UNCHANGED <<queues, attempts, calls, ready, createCalls, reported, resets, preexisting,
                 options, cntVars>>
  /\ UNCHANGED msgVars

\* deleteQueue of a queue found empty, or its failure
GcDelete(name) ==
  /\ gc.pc = "deleting"
  /\ name \in gc.deleting
  /\ \E outcome \in Outcomes({"Other"}) :
       IF outcome = "Other"
       THEN /\ gc' = [gc EXCEPT !.deleting = @ \ {name},
                                 !.failed = @ \cup {name}]
            /\ faults' = faults + 1
            /\ UNCHANGED <<client_queues, client_metadata>>
       ELSE /\ gc' = [gc EXCEPT !.deleting = @ \ {name},
                                 !.deleted = @ + 1,
                                 !.gone = IF QueueNotFound(name)
                                          THEN @
                                          ELSE @ \cup {[name |-> name,
                                                        metadata |-> client_metadata[name],
                                                        messageCount |-> messageCount(name),
                                                        now |-> gc.now]}]
            /\ faults' = faults
            /\ client_queues' = DeleteKey(client_queues, name)
            /\ client_metadata' = DeleteKey(client_metadata, name)
  /\ UNCHANGED <<now, ticks, nextSlug>>
  /\ UNCHANGED <<queues, attempts, calls, ready, createCalls, reported, resets, preexisting,
                 options, cntVars>>
  /\ UNCHANGED msgVars

\* the Promise.all of a page is fulfilled and there is a marker: the next
\* page is listed
GcNextPage ==
  /\ gc.pc = "deleting"
  /\ gc.candidates = {}
  /\ gc.deleting = {}
  /\ gc.failed = {}
  /\ gc.marker # 0
  /\ gc' = [gc EXCEPT !.candidates = PageCandidates(gc.marker, gc.pageSize, gc.now),
                       !.marker = nextMarker(gc.marker, gc.pageSize)]
  /\ UNCHANGED <<now, ticks, client_queues, client_metadata, nextSlug>>
  /\ UNCHANGED svcVars
  /\ UNCHANGED msgVars

\* deleteUnusedWorkerQueues returns the number of queues deleted, or has
\* thrown the error of a page's Promise.all and the calls of that page are
\* over
GcReturn ==
  /\ gc.pc = "deleting"
  /\ gc.candidates = {}
  /\ gc.deleting = {}
  /\ gc.failed # {} \/ gc.marker = 0
  /\ gc' = [gc EXCEPT !.pc = "idle", !.runs = @ + 1]
  /\ UNCHANGED <<now, ticks, client_queues, client_metadata, nextSlug>>
  /\ UNCHANGED svcVars
  /\ UNCHANGED msgVars

\* the page sizes of the clients: the one page of FakeQueueClient, and
\* pages of one queue
PageSizes == {0, 1}

\* the time of the run, the queues it finds, and the meta-data and the
\* messages they may have: each identifier there or not, last_used missing,
\* 10 days and a second old, exactly 10 days old or a millisecond old
GcNow == DeleteAfter + 1000
GcQueues == {pendingQueues("prov1", "wt1")[1], pendingQueues("wt1", "prov1")[7]}
GcMetadata ==
  [provisioner_id : {"", "prov1"},
   worker_type    : {"", "wt1"},
   last_used      : {<<>>, <<0>>, <<GcNow - DeleteAfter>>, <<GcNow - 1>>}]
GcMessages ==
  {<<>>,
   <<newMessage(encodeMessage([taskId |-> "t1", runId |-> 0, hintId |-> 1]), 2, 0, 600,
                GcNow - 1000)>>}

InitGC ==
  /\ now = GcNow
  /\ ticks = 0
  /\ client_queues \in [GcQueues -> GcMessages]
  /\ client_metadata \in [GcQueues -> GcMetadata]
  /\ attempts = <<>>
  /\ queues = [id \in FamilyIds |-> 0]
  /\ calls = <<>>
  /\ ready = [n \in ExpirationNames |-> "null"]
  /\ nextSlug = 3
  /\ createCalls = [n \in AllNames |-> 0]
  /\ reported = 0
  /\ faults = 0
  /\ resets = 0
  /\ preexisting = GcQueues
  /\ options = DefaultOptions
  /\ NotCounted
  /\ putLog = <<>>
  /\ delivered = {}
  /\ removed = {}
  /\ released = {}
  /\ \E pageSize \in PageSizes : gc = [GcIdle EXCEPT !.pageSize = pageSize]

NextGC ==
  \/ GcStart
  \/ \E name \in GcQueues : GcCount(name)
  \/ \E name \in GcQueues : GcDelete(name)
  \/ GcNextPage
  \/ GcReturn

SpecGC == InitGC /\ [][NextGC]_vars

\* deleteUnusedWorkerQueues next to ensurePendingQueue and putPendingMessage:
\* the 7 queues of the pair exist and are empty, the one of the highest
\* priority last used 10 days and a second ago and the others a millisecond
\* ago, and the service is new
RaceQueues == Range(pendingQueues(EnsureFamily[1], EnsureFamily[2]))
RaceTask ==
  [taskId |-> "t1", provisionerId |-> EnsureFamily[1], workerType |-> EnsureFamily[2],
   priority |-> "highest", deadline |-> GcNow + 900000]

InitRace ==
  /\ now = GcNow
  /\ ticks = 0
  /\ client_queues = [n \in RaceQueues |-> <<>>]
  /\ client_metadata =
       [n \in RaceQueues |->
          FreshMetadata(EnsureFamily[1], EnsureFamily[2],
                        IF n = pendingQueueOf(RaceTask) THEN 0 ELSE GcNow - 1)]
  /\ attempts = <<>>
  /\ queues = [id \in FamilyIds |-> 0]
  /\ calls = <<>>
  /\ ready = [n \in ExpirationNames |-> "null"]
  /\ nextSlug = 1
  /\ createCalls = [n \in AllNames |-> 0]
  /\ reported = 0
  /\ faults = 0
  /\ resets = 0
  /\ preexisting = RaceQueues
  /\ options = DefaultOptions
  /\ NotCounted
  /\ putLog = <<>>
  /\ delivered = {}
  /\ removed = {}
  /\ released = {}
  /\ gc = GcIdle

NextRace ==
  \/ GcStart
  \/ \E name \in RaceQueues : GcCount(name)
  \/ \E name \in RaceQueues : GcDelete(name)
  \/ GcReturn
  \/ ensurePendingQueue(EnsureFamily[1], EnsureFamily[2])
  \/ \E a \in DOMAIN attempts : ensureCreateQueue(a)
  \/ \E a \in DOMAIN attempts : ensureSetMetadata(a)
  \/ putPendingMessage(RaceTask, 0)

SpecRace == InitRace /\ [][NextRace]_vars

\* the same with the callback of queueResetInterval
NextEvict ==
  \/ NextRace
  \/ resetQueues

SpecEvict == InitRace /\ [][NextEvict]_vars

\* deleteUnusedWorkerQueues run by a service whose queues are all ensured
NextSweep ==
  \/ \E d \in Steps : Tick(d)
  \/ GcStart
  \/ \E name \in AllNames : GcCount(name)
  \/ \E name \in AllNames : GcDelete(name)
  \/ GcReturn
  \/ putClaimMessage("t1", 0, -5000)
  \/ pollClaimQueue

SpecSweep == InitMsg /\ [][NextSweep]_vars

-----------------------------------------------------------------------------
(* QueueService: countPendingMessages                                      *)
(*                                                                         *)
(* countRefreshes[r] is the promise made by the r-th refresh; promise 0 is *)
(* the Promise.resolve(0) of a new cache entry.  A call returns when the   *)
(* promise it awaits is settled.  lastUpdated is <<>> for the 0 of a new   *)
(* entry, the epoch, which lies further back than every time of the model. *)

cacheKey(provisionerId, workerType) == provisionerId \o "/" \o workerType

\* this.countPendingCache[cacheKey] || {count: Promise.resolve(0), lastUpdated: 0}
NewEntry == [count |-> 0, lastUpdated |-> <<>>]
EntryOf(key) ==
  IF key \in DOMAIN countPendingCache THEN countPendingCache[key] ELSE NewEntry

\* an entry that every call refreshes
StaleAlways(entry, t) == TRUE

\* an entry that is refreshed as well when its last refresh has failed
StaleOrRejected(entry, t) ==
  \/ entry.lastUpdated = <<>>
  \/ t - entry.lastUpdated[1] > CountMaxAge
  \/ entry.count # 0 /\ countRefreshes[entry.count].state = "rejected"

\* Date.now() - entry.lastUpdated > 20 * 1000
Stale(entry, t) ==
  \/ entry.lastUpdated = <<>>
  \/ t - entry.lastUpdated[1] > CountMaxAge

\* _.sumBy(results, 'messageCount') over the queues of the pair
RECURSIVE sumMessageCount(_)
sumMessageCount(queueNames) ==
  IF queueNames = <<>> THEN 0
  ELSE messageCount(Head(queueNames)) + sumMessageCount(Tail(queueNames))

\* the state and the value of a count promise
CountPromise(r) ==
  IF r = 0 THEN [state |-> "fulfilled", value |-> 0]
  ELSE [state |-> countRefreshes[r].state, value |-> countRefreshes[r].value]

\* countPendingMessages(provisionerId, workerType) up to its await, called
\* when the pair's queues are ensured
countPendingMessages(provisionerId, workerType) ==
  /\ Len(countCalls) < MaxCounts
  /\ Ensured(provisionerId, workerType)
  /\ LET key   == cacheKey(provisionerId, workerType)
         entry == EntryOf(key)
         r     == Len(countRefreshes) + 1
     IN  IF Stale(entry, now)
         THEN /\ countRefreshes' =
                   Append(countRefreshes,
                          [key |-> key, family |-> <<provisionerId, workerType>>,
                           started |-> now, state |-> "pending", value |-> 0,
                           getMetadata |-> 0])
              /\ countPendingCache' =
                   SetKey(countPendingCache, key, [count |-> r, lastUpdated |-> <<now>>])
              /\ countCalls' =
                   Append(countCalls, [key |-> key, at |-> now, refresh |-> r,
                                       awaits |-> r, lastKnown |-> entry.count,
                                       lastUpdated |-> entry.lastUpdated])
         ELSE /\ countPendingCache' = SetKey(countPendingCache, key, entry)
              /\ countCalls' =
                   Append(countCalls, [key |-> key, at |-> now, refresh |-> 0,
                                       awaits |-> entry.count, lastKnown |-> entry.count,
                                       lastUpdated |-> entry.lastUpdated])
              /\ UNCHANGED countRefreshes
  /\ UNCHANGED <<now, ticks, client_queues, client_metadata, nextSlug, gc>>
  /\ UNCHANGED <<queues, attempts, calls, ready, createCalls, reported, faults,
                 resets, preexisting, options>>
  /\ UNCHANGED msgVars

\* the refresh of countPendingMessages after its await of ensurePendingQueue:
\* one getMetadata call per queue of the pair, and the sum of their results
countRefresh(r) ==
  /\ countRefreshes[r].state = "pending"
  /\ LET family     == countRefreshes[r].family
         queueNames == pendingQueues(family[1], family[2])
     IN  \E outcome \in Outcomes({"Other"}) :
           IF outcome = "ok" /\ \A i \in DOMAIN queueNames : ~QueueNotFound(queueNames[i])
           THEN /\ countRefreshes' =
                     [countRefreshes EXCEPT ![r].state = "fulfilled",
                                            ![r].value = sumMessageCount(queueNames),
                                            ![r].getMetadata = Len(queueNames)]
                /\ UNCHANGED faults
           ELSE /\ countRefreshes' =
                     [countRefreshes EXCEPT ![r].state = "rejected",
                                            ![r].getMetadata = Len(queueNames)]
                /\ faults' = faults + (IF outcome = "ok" THEN 0 ELSE 1)
  /\ UNCHANGED <<now, ticks, client_queues, client_metadata, nextSlug, gc>>
  /\ UNCHANGED <<queues, attempts, calls, ready, createCalls, reported,
                 resets, preexisting, options, countPendingCache, countCalls>>
  /\ UNCHANGED msgVars

\* the clock steps between countPendingMessages calls: 10 and 15 seconds
CountSteps == {10000, 15000}

\* the pair whose messages are counted; the pair with its identifiers swapped
\* is counted by the first call only
CountTask == CHOOSE task \in Tasks : task.taskId = "t1"

NextCount ==
  \/ \E d \in CountSteps : Tick(d)
  \/ putPendingMessage(CountTask, 0)
  \/ countPendingMessages(CountTask.provisionerId, CountTask.workerType)
  \/ countCalls = <<>> /\ countPendingMessages(CountTask.workerType, CountTask.provisionerId)
  \/ \E r \in DOMAIN countRefreshes : countRefresh(r)

SpecCount == InitMsg /\ [][NextCount]_vars

-----------------------------------------------------------------------------
(* Properties of the messages                                              *)

PendingDeliveries == {d \in delivered : d.kind = "pending"}

\* the messageIds a _getMessages call with this count would hand out now
ReturnedIds(queue, visibility, count) ==
  IF QueueNotFound(queue)
  THEN {}
  ELSE {r.messageId :
          r \in Range(getMessages(client_queues[queue], now, visibility, count, nextSlug).rv)}

ReturnedCount(queue, visibility, count) ==
  IF QueueNotFound(queue)
  THEN 0
  ELSE Len(getMessages(client_queues[queue], now, visibility, count, nextSlug).rv)

VisibilityOf(name) == IF name \in ExpirationNames THEN ExpirationVisibility ELSE PendingVisibility

\* d is the last delivery of its message
Latest(d) == \A e \in delivered : e.messageId = d.messageId => e.popReceipt <= d.popReceipt

\* the putLog entry of a message
PutOf(messageId) ==
  putLog[CHOOSE k \in DOMAIN putLog : putLog[k].messageId = messageId]

\* the end of the TTL the message was put with
ExpiryOf(messageId) == PutOf(messageId).at + PutOf(messageId).ttl * 1000

\* C3: once remove() of a polled message has completed, no poll of any queue,
\* with any count, returns that message again.
C3_RemovedNeverReturned ==
  \A id \in removed : \A name \in AllNames : \A count \in Counts \cup {PollLimit} :
    id \notin ReturnedIds(name, VisibilityOf(name), count)

C3_Witness ==
  \E d \in PendingDeliveries :
    /\ d.messageId \in removed
    /\ now > d.until
    /\ now <= ExpiryOf(d.messageId)

\* C4: the lease of a poll is 5 minutes on a pending queue and 10 minutes on
\* the claim, deadline and resolved queues; while the lease of a delivery that
\* was not released runs, no poll returns the message, and two deliveries of
\* one message are apart by more than the lease of the first unless the first
\* was released.
C4_LeaseHidesMessage ==
  /\ \A d \in delivered :
       d.until = d.at + (IF d.kind = "pending" THEN 300000 ELSE 600000)
  /\ \A d \in delivered :
       (d.popReceipt \notin released /\ now <= d.until) =>
         \A count \in Counts \cup {PollLimit} :
           d.messageId \notin ReturnedIds(d.queue, VisibilityOf(d.queue), count)
  /\ \A d1, d2 \in delivered :
       (/\ d1.messageId = d2.messageId
        /\ d1.popReceipt < d2.popReceipt
        /\ d1.popReceipt \notin released) => d2.at > d1.until

C4_Witness ==
  \E d \in delivered :
    /\ d.popReceipt \notin released
    /\ d.messageId \notin removed
    /\ now > d.at
    /\ now <= d.until
    /\ now <= ExpiryOf(d.messageId)

\* C5: a pending message that was polled and then neither removed nor released
\* is still in its queue once the lease has expired, and until its TTL has
\* elapsed every poll of its shard returns it, unless the poll is filled by
\* count messages before it.
C5_RedeliveredAfterLease ==
  \A d \in PendingDeliveries :
    (/\ Latest(d)
     /\ d.messageId \notin removed
     /\ d.popReceipt \notin released
     /\ now > d.until
     /\ now <= ExpiryOf(d.messageId)) =>
       \A count \in Counts :
         \/ d.messageId \in ReturnedIds(d.queue, PendingVisibility, Min(count, PollLimit))
         \/ /\ Min(count, PollLimit) >= 1
            /\ ReturnedCount(d.queue, PendingVisibility, Min(count, PollLimit))
                 = Min(count, PollLimit)

C5_Witness ==
  \E d1, d2 \in PendingDeliveries :
    /\ d1.messageId = d2.messageId
    /\ d1.popReceipt \notin released
    /\ d2.at > d1.until

\* C6: after release() of a polled pending message has completed, the next
\* poll of its shard returns the message, if its TTL has not elapsed.
C6_ReleasedImmediatelyPollable ==
  \A d \in PendingDeliveries :
    (/\ Latest(d)
     /\ d.popReceipt \in released
     /\ d.messageId \notin removed
     /\ now <= ExpiryOf(d.messageId)) =>
       d.messageId \in ReturnedIds(d.queue, PendingVisibility, PollLimit)

\* C7: pendingQueues lists the 7 shards from highest to lowest, and a pending
\* message is handed out only by the poll function of its task's priority in
\* its task's pair, with the payload it was put with; while it is visible,
\* that poll function returns it and the poll function of no other shard does.
C7_RoutedByPriority ==
  /\ PRIORITIES = <<"highest", "very-high", "high", "medium", "low", "very-low", "lowest">>
  /\ \A f \in Families :
       /\ Len(pendingQueues(f[1], f[2])) = 7
       /\ \A i \in 1..7 : \A j \in 1..7 :
            i # j => pendingQueues(f[1], f[2])[i] # pendingQueues(f[1], f[2])[j]
  /\ \A d \in PendingDeliveries :
       \E k \in DOMAIN putLog :
         /\ putLog[k].kind = "pending"
         /\ putLog[k].outcome = "put"
         /\ putLog[k].messageId = d.messageId
         /\ putLog[k].payload = d.payload
         /\ putLog[k].family = d.family
         /\ putLog[k].priority = PRIORITIES[d.index]
  /\ \A k \in DOMAIN putLog :
       (putLog[k].kind = "pending" /\ putLog[k].outcome = "put") =>
         \A f \in Families : \A i \in DOMAIN PRIORITIES :
           IF f = putLog[k].family /\ PRIORITIES[i] = putLog[k].priority
           THEN (/\ putLog[k].messageId \notin removed
                 /\ now > putLog[k].at
                 /\ now <= ExpiryOf(putLog[k].messageId)
                 /\ \A d \in delivered : d.messageId # putLog[k].messageId) =>
                  putLog[k].messageId \in
                    ReturnedIds(pendingQueues(f[1], f[2])[i], PendingVisibility, PollLimit)
           ELSE putLog[k].messageId \notin
                  ReturnedIds(pendingQueues(f[1], f[2])[i], PendingVisibility, PollLimit)

C7_Witness ==
  \E d \in PendingDeliveries :
    /\ d.family = <<"wt1", "prov1">>
    /\ PRIORITIES[d.index] = "low"
    /\ d.payload.taskId = "t2"

\* C8: putPendingMessage of a task whose deadline is in the past puts no
\* message and returns without error.
C8_NoPublishAfterDeadline ==
  \A k \in DOMAIN putLog :
    (putLog[k].kind = "pending" /\ putLog[k].deadline < putLog[k].at) =>
      putLog[k].outcome = "skipped"

\* C9: a pending message is put with the seconds to the deadline, rounded up
\* and at least 1, as its TTL; no poll returns it after that TTL, so none
\* returns it more than one second after the deadline of its task.
C9_NotDeliveredAfterDeadline ==
  /\ \A k \in DOMAIN putLog :
       (putLog[k].kind = "pending" /\ putLog[k].outcome = "put") =>
         putLog[k].ttl = Max(Ceil1000(putLog[k].deadline - putLog[k].at), 1)
  /\ \A d \in PendingDeliveries :
       /\ d.at <= ExpiryOf(d.messageId)
       /\ d.at <= PutOf(d.messageId).deadline + 1000

-----------------------------------------------------------------------------
(* Properties of ensurePendingQueue                                        *)

EnsureId == cacheId(EnsureFamily[1], EnsureFamily[2])
EnsureShards == Range(pendingQueues(EnsureFamily[1], EnsureFamily[2]))
EnsureNames == names(EnsureFamily[1], EnsureFamily[2])

\* every call but the first was made while an earlier one was unanswered
Concurrent == \A k \in 2..Len(calls) : calls[k].overlap

\* C1: for a pair whose queues do not exist, and without a reset of the
\* cache, concurrent calls of ensurePendingQueue share one promise: no
\* shard gets a second createQueue call, all callers get the same answer,
\* and when it is fulfilled each of the 7 shards has had exactly one
\* createQueue call and the answer of all is the one name map.
C1_OneCreatePerShard ==
  (preexisting = {} /\ resets = 0 /\ Concurrent) =>
    /\ \A n \in EnsureShards : createCalls[n] <= 1
    /\ Len(attempts) <= 1
    /\ \A k \in DOMAIN calls :
         /\ calls[k].attempt = 1
         /\ calls[k].result = calls[1].result
         /\ attempts[1].state = "fulfilled" =>
              /\ calls[k].result = [status |-> "ok", value |-> EnsureNames]
              /\ \A n \in EnsureShards : createCalls[n] = 1

\* two calls, the second made while the first was creating the queues, have
\* been answered with the map after 7 createQueue calls
C1_Witness ==
  /\ preexisting = {} /\ resets = 0
  /\ Len(calls) = 2
  /\ Concurrent
  /\ attempts[1].state = "fulfilled"
  /\ \A k \in DOMAIN calls : calls[k].result = [status |-> "ok", value |-> EnsureNames]
  /\ \A n \in EnsureShards : createCalls[n] = 1

\* C2: a promise with a failed shard is rejected, every caller that awaits
\* it gets the error, it is not in the cache once it is rejected, no call
\* is answered from it afterwards, and a call that finds no promise reads
\* the meta-data again in a promise of its own.
C2_FailureEvicts ==
  /\ \A a \in DOMAIN attempts :
       (\E i \in DOMAIN PRIORITIES : attempts[a].pc[i] = "failed") =>
         attempts[a].state = "rejected"
  /\ \A id \in DOMAIN queues :
       queues[id] # 0 => attempts[queues[id]].state # "rejected"
  /\ \A k \in DOMAIN calls :
       /\ calls[k].how \in {"created", "pending", "fulfilled"}
       /\ attempts[calls[k].attempt].state = "rejected" =>
            calls[k].result = [status |-> "error", value |-> <<>>]
       /\ calls[k].how = "created" =>
            \A j \in 1..(k - 1) : calls[j].attempt < calls[k].attempt

\* a shard of the first promise failed, its caller got the error, and the
\* next call found no promise, made one of its own and got the name map
C2_Witness ==
  /\ Len(calls) = 2
  /\ calls[1].attempt = 1
  /\ attempts[1].state = "rejected"
  /\ \E i \in DOMAIN PRIORITIES : attempts[1].pc[i] = "failed"
  /\ calls[1].result.status = "error"
  /\ calls[2].how = "created" /\ calls[2].attempt = 2
  /\ attempts[2].state = "fulfilled"
  /\ calls[2].result = [status |-> "ok", value |-> EnsureNames]
  /\ queues[EnsureId] = 2

-----------------------------------------------------------------------------
(* Properties of deleteUnusedWorkerQueues                                  *)

\* last_used of the meta-data is within the 10 days before t
UsedWithin10Days(metadata, t) ==
  /\ Len(metadata.last_used) = 1
  /\ metadata.last_used[1] >= t - DeleteAfter
  /\ metadata.last_used[1] <= t

\* C10 as stated: a run never deletes a queue whose last_used is within the
\* 10 days before now, and never a queue that holds a message.
C10_NeverDeletesRecentOrNonEmpty ==
  \A r \in gc.gone :
    /\ ~UsedWithin10Days(r.metadata, r.now)
    /\ r.messageCount = 0

\* C10: a run never deletes a queue whose meta-data has provisioner_id,
\* worker_type and a last_used within the 10 days before now, and never a
\* queue that holds a message; a queue without one of the two identifiers
\* is deleted when it is empty, whatever its last_used, by a run in which
\* no client call fails.
C10_NeverDeletesIdentifiedRecentOrNonEmpty ==
  /\ \A r \in gc.gone :
       /\ r.messageCount = 0
       /\ UsedWithin10Days(r.metadata, r.now) =>
            (r.metadata.provisioner_id = "" \/ r.metadata.worker_type = "")
  /\ (gc.pc = "idle" /\ gc.runs > 0 /\ gc.failed = {}) =>
       \A n \in GcQueues :
         (/\ ~QueueNotFound(n)
          /\ messageCount(n) = 0
          /\ UsedWithin10Days(client_metadata[n], gc.now)) =>
           (client_metadata[n].provisioner_id # "" /\ client_metadata[n].worker_type # "")

\* a run has returned after deleting one queue and keeping the other, which
\* is empty and was used exactly 10 days before
C10_Witness ==
  /\ gc.pc = "idle" /\ gc.runs = 1 /\ gc.deleted = 1
  /\ \E r \in gc.gone : r.metadata.last_used = <<0>> /\ r.metadata.provisioner_id # ""
  /\ \E n \in GcQueues :
       /\ ~QueueNotFound(n)
       /\ messageCount(n) = 0
       /\ client_metadata[n] =
            [provisioner_id |-> "prov1", worker_type |-> "wt1",
             last_used |-> <<GcNow - DeleteAfter>>]

\* the queues left that the run's filter marks and that are empty
LeftUnswept ==
  {n \in DOMAIN client_queues :
     MarkedForDeletion(client_metadata[n], gc.now) /\ messageCount(n) = 0}

\* C11: when the check or the deletion of a candidate queue has failed, the
\* run still checks every other candidate, of the same page and of the
\* later pages: once it is over no queue but the failed ones is left that
\* is marked by the filter and empty.
C11_FailureDoesNotAbortSweep ==
  (gc.pc = "idle" /\ gc.runs > 0) => LeftUnswept \subseteq gc.failed
-----------------------------------------------------------------------------
(* Properties of the claim and deadline messages                           *)

\* the entries of putLog of the messages put on the queues of one kind
PutsOf(kind) ==
  {putLog[k] : k \in {j \in DOMAIN putLog :
                        putLog[j].kind = kind /\ putLog[j].outcome = "put"}}

\* the message is neither removed nor under the lease of a poll
Unleased(messageId) ==
  /\ messageId \notin removed
  /\ \A d \in delivered : d.messageId = messageId => d.until < now

\* what the time t of a payload is after toJSON, JSON and new Date
DateOf(t) == newDate(decodeMessage(encodeMessage([at |-> toJSON(t)])).at)

\* C12 as stated: no pollClaimQueue call made before takenUntil returns the
\* claim message, and a call made more than a second after takenUntil
\* returns it when it is neither removed nor leased.
C12_ClaimVisibleAtTakenUntil ==
  /\ \A d \in delivered :
       d.kind = "claim" => d.at >= newDate(d.payload.takenUntil)
  /\ \A p \in PutsOf("claim") :
       (/\ now > p.deadline + 1000
        /\ now <= ExpiryOf(p.messageId)
        /\ Unleased(p.messageId)) =>
          p.messageId \in ReturnedIds(claimQueue, ExpirationVisibility, PollLimit)

\* C12: no pollClaimQueue call made before takenUntil returns the claim
\* message, and a call made more than a second after takenUntil and more
\* than a second after the put returns it when it is neither removed nor
\* leased and its TTL of 7 days is not over.
C12_ClaimVisibleAfterDelay ==
  /\ \A d \in delivered :
       d.kind = "claim" =>
         /\ d.at >= newDate(d.payload.takenUntil)
         /\ d.at > PutOf(d.messageId).at
         /\ DateOf(PutOf(d.messageId).deadline) = newDate(d.payload.takenUntil)
  /\ \A p \in PutsOf("claim") :
       (/\ now > Max(p.deadline, p.at) + 1000
        /\ now <= ExpiryOf(p.messageId)
        /\ Unleased(p.messageId)) =>
          p.messageId \in ReturnedIds(claimQueue, ExpirationVisibility, PollLimit)

\* a claim message put before its takenUntil was handed out by a poll made
\* more than a second after it
C12_Witness ==
  \E d \in delivered :
    /\ d.kind = "claim"
    /\ PutOf(d.messageId).at < newDate(d.payload.takenUntil)
    /\ d.at > newDate(d.payload.takenUntil) + 1000

\* the time from which a poll returns the message of a put
VisibleFrom(p) == fromNow(p.visibility, p.at)

\* no pollDeadlineQueue call returns a deadline message before its deadline
\* plus the configured deadlineDelay
DeadlineNotBeforeDelay ==
  \A d \in delivered :
    d.kind = "deadline" => d.at >= newDate(d.payload.deadline) + options.deadlineDelay

\* C13: no pollDeadlineQueue call returns a deadline message before its
\* deadline plus the configured deadlineDelay, and a claim message of the
\* same task whose takenUntil is not after the deadline becomes pollable
\* strictly before the deadline message does.
C13_DeadlineAfterClaim ==
  /\ DeadlineNotBeforeDelay
  /\ \A c \in PutsOf("claim"), m \in PutsOf("deadline") :
       (c.payload.taskId = m.payload.taskId /\ c.deadline <= m.deadline) =>
         VisibleFrom(c) < VisibleFrom(m)
-----------------------------------------------------------------------------
(* Properties of ensureClaimQueue, ensureResolvedQueue, ensureDeadlineQueue *)

\* the calls that wait or waited for creation n of the queue
Waiters(queue, n) == {k \in DOMAIN calls : calls[k].id = queue /\ calls[k].attempt = n}

\* creation n of the queue has failed
CreationFailed(queue, n) ==
  \E k \in Waiters(queue, n) : calls[k].how = "created" /\ calls[k].result.status = "error"

\* C14: for each of the three queues createQueue is issued once more than
\* the creations that failed, at most; the callers that wait for one
\* creation all get its outcome; when it fails the promise is not kept, no
\* later call is answered from it, and the next call issues createQueue
\* again.
C14_ExpirationQueueCreatedOnce ==
  \A queue \in ExpirationNames :
    /\ createCalls[queue] <=
         1 + Cardinality({n \in 1..createCalls[queue] : CreationFailed(queue, n)})
    /\ \A n \in 1..createCalls[queue] :
         /\ \A k, j \in Waiters(queue, n) : calls[k].result = calls[j].result
         /\ CreationFailed(queue, n) =>
              /\ \A k \in Waiters(queue, n) : calls[k].how \in {"created", "pending"}
              /\ n = createCalls[queue] => ready[queue] = "null"
         /\ n > 1 => CreationFailed(queue, n - 1)
    /\ ready[queue] = "fulfilled" => ~QueueNotFound(queue)

\* the first creation of the claim queue failed, its caller got the error,
\* and the next call issued createQueue again and was answered
C14_Witness ==
  /\ createCalls[claimQueue] = 2
  /\ CreationFailed(claimQueue, 1)
  /\ \E k \in Waiters(claimQueue, 2) :
       calls[k].how = "created" /\ calls[k].result.status = "ok"
  /\ ready[claimQueue] = "fulfilled"
-----------------------------------------------------------------------------
(* Properties of countPendingMessages                                      *)

\* the countPendingMessages calls that have returned, and what they returned
CountReturned(c) == CountPromise(countCalls[c].awaits).state # "pending"
CountResult(c) == CountPromise(countCalls[c].awaits)

\* the refreshes of one key start more than 20 seconds apart, each is started
\* by a call made more than 20 seconds after the start of the one before,
\* and each issues one getMetadata call per shard
OneRefreshPerWindow ==
  /\ \A c \in DOMAIN countCalls :
       LET call == countCalls[c] IN
       (call.lastUpdated = <<>> \/ call.at - call.lastUpdated[1] > CountMaxAge)
         => /\ call.refresh # 0
            /\ Cardinality({r \in DOMAIN countRefreshes :
                              countRefreshes[r].key = call.key
                              /\ countRefreshes[r].started = call.at}) = 1
  /\ \A r1, r2 \in DOMAIN countRefreshes :
       (r1 < r2 /\ countRefreshes[r1].key = countRefreshes[r2].key)
         => countRefreshes[r2].started - countRefreshes[r1].started > CountMaxAge
  /\ \A r \in DOMAIN countRefreshes :
       countRefreshes[r].state # "pending"
         => countRefreshes[r].getMetadata = Len(PRIORITIES)

\* C15 as stated: two countPendingMessages calls of one key less than 20
\* seconds apart return the same value and the second starts no refresh; a
\* call made more than 20 seconds after the start of the last refresh starts
\* exactly one refresh, of one getMetadata call per shard.
C15_SameWithinTwentySeconds ==
  /\ \A c1, c2 \in DOMAIN countCalls :
       (/\ c1 < c2
        /\ countCalls[c1].key = countCalls[c2].key
        /\ countCalls[c2].at - countCalls[c1].at < CountMaxAge)
         => /\ countCalls[c2].refresh = 0
            /\ (CountReturned(c1) /\ CountReturned(c2)) => CountResult(c1) = CountResult(c2)
  /\ OneRefreshPerWindow

\* C15: a countPendingMessages call made no more than 20 seconds after the
\* start of the last refresh of its key starts no refresh and returns what
\* every call since that refresh returns; a call made more than 20 seconds
\* after it starts exactly one refresh, of one getMetadata call per shard,
\* so the refreshes of a key start more than 20 seconds apart.
C15_SameWithinTwentySecondsOfRefresh ==
  /\ \A c2 \in DOMAIN countCalls :
       LET call == countCalls[c2] IN
       (call.lastUpdated # <<>> /\ call.at - call.lastUpdated[1] <= CountMaxAge)
         => /\ call.refresh = 0
            /\ \A c1 \in DOMAIN countCalls :
                 (/\ c1 < c2
                  /\ countCalls[c1].key = call.key
                  /\ countCalls[c1].at >= call.lastUpdated[1])
                   => /\ countCalls[c1].awaits = call.awaits
                      /\ (CountReturned(c1) /\ CountReturned(c2))
                           => CountResult(c1) = CountResult(c2)
  /\ OneRefreshPerWindow

\* a call made 15 seconds after a refresh returned its value without a
\* refresh, and a call made 10 seconds later started the second refresh
C15_Witness ==
  \E c1, c2, c3 \in DOMAIN countCalls :
    /\ c1 < c2 /\ c2 < c3
    /\ countCalls[c1].key = countCalls[c2].key /\ countCalls[c2].key = countCalls[c3].key
    /\ countCalls[c1].refresh # 0
    /\ countCalls[c2].refresh = 0
    /\ countCalls[c2].at > countCalls[c1].at
    /\ CountReturned(c2)
    /\ CountResult(c2).state = "fulfilled" /\ CountResult(c2).value = 1
    /\ countCalls[c3].refresh # 0
    /\ countCalls[c3].at - countCalls[c2].at < CountMaxAge
    /\ CountReturned(c3)

\* C16: a countPendingMessages call that starts a refresh and returns a
\* count returns the count known before the refresh, the value of the
\* promise the cache entry held, and not the count the refresh finds.
C16_RefreshReturnsLastKnown ==
  \A c \in DOMAIN countCalls :
    (countCalls[c].refresh # 0 /\ CountResult(c).state = "fulfilled")
      => CountResult(c) = CountPromise(countCalls[c].lastKnown)

-----------------------------------------------------------------------------
(* Properties of the asserts of the put calls                              *)

\* the arguments of a put call that the asserts are to refuse
Malformed(p) ==
  \/ p.kind = "pending"
       /\ \/ p.priority \notin DOMAIN PRIORITY_TO_CONSTANT
          \/ ~IsIdentifier(p.family[1])
          \/ ~IsIdentifier(p.family[2])
  \/ p.kind = "resolved" /\ ~IsResolution(p.payload.resolution)
  \/ p.kind \in {"claim", "deadline"} /\ ~Given(p.payload.taskId)

\* C17: a put call with a malformed provisionerId or workerType, a priority
\* that is none of the 7, a resolution that is none of the 3 or a taskId that
\* is not given fails on an assert, with no call made to the queue client.
C17_MalformedFailsBeforeClientCall ==
  \A k \in DOMAIN putLog : Malformed(putLog[k]) => putLog[k].outcome = "assert"

-----------------------------------------------------------------------------
(* Properties of poll(count)                                               *)

\* the messages handed out by the call that handed out d
SameCall(d) == {e \in delivered : e.queue = d.queue /\ e.call = d.call}

\* C18: a poll(count) call on a pending queue asks the client for
\* min(count, 32) messages, which is at most 32, and returns no more
\* messages than it asks for, whatever the count, 0 included.
C18_AtMostCountMessages ==
  \A d \in delivered :
    d.kind = "pending" =>
      /\ d.count <= PollLimit
      /\ Cardinality(SameCall(d)) <= d.count

-----------------------------------------------------------------------------
(* Properties of deleteUnusedWorkerQueues next to the other operations     *)

\* C19: whatever ensurePendingQueue and putPendingMessage do meanwhile, a
\* queue holds no message when deleteUnusedWorkerQueues deletes it, and its
\* last_used is not within the 10 days before the time of the run.
C19_DeletedWhileStaleAndEmpty ==
  \A g \in gc.gone :
    /\ g.messageCount = 0
    /\ Len(g.metadata.last_used) = 1 => g.metadata.last_used[1] < g.now - DeleteAfter

\* C20: deleteUnusedWorkerQueues deletes none of the claim, resolved and
\* deadline queues, and no put on one of them fails with QueueNotFound.
C20_ExpirationQueuesNeverDeleted ==
  /\ \A g \in gc.gone : g.name \notin ExpirationNames
  /\ \A n \in ExpirationNames : ready[n] = "fulfilled" => ~QueueNotFound(n)
  /\ \A k \in DOMAIN putLog :
       putLog[k].kind \in {"claim", "resolved", "deadline"}
         => putLog[k].outcome # "QueueNotFound"

-----------------------------------------------------------------------------
(* Properties of _ensureQueueAndMetadata                                   *)

\* the queue of shard i of a promise
ShardQueue(att, i) == pendingQueues(att.provisionerId, att.workerType)[i]

\* meta-data with the identifiers of a promise and less than 23 hours old
LessThan23HoursOld(att, metadata, t) ==
  /\ metadata.provisioner_id = att.provisionerId
  /\ metadata.worker_type = att.workerType
  /\ metadata.last_used # <<>>
  /\ t - metadata.last_used[1] < MetadataTolerance

\* the step is a call of ensurePendingQueue that makes a promise: what each
\* _ensureQueueAndMetadata does on the answer of getMetadata
ReadsUpToDateOnly ==
  Len(attempts') = Len(attempts) + 1 =>
    /\ client_metadata' = client_metadata
    /\ client_queues' = client_queues
    /\ createCalls' = createCalls
    /\ \A i \in DOMAIN PRIORITIES :
         LET att == attempts'[Len(attempts')]
             queue == ShardQueue(att, i)
         IN  /\ att.pc[i] = "done" =>
                  /\ ~QueueNotFound(queue)
                  /\ LessThan23HoursOld(att, client_metadata[queue], now)
             /\ att.pc[i] = "setMetadata" =>
                  /\ ~QueueNotFound(queue)
                  /\ ~LessThan23HoursOld(att, client_metadata[queue], now)

\* the step is a setMetadata call of _ensureQueueAndMetadata that succeeds
WritesCurrent ==
  \A a \in DOMAIN attempts : \A i \in DOMAIN PRIORITIES :
    (/\ Len(attempts') = Len(attempts)
     /\ attempts[a].pc[i] = "setMetadata"
     /\ attempts'[a].pc[i] = "done") =>
       /\ client_metadata'[ShardQueue(attempts[a], i)] =
            [provisioner_id |-> attempts[a].provisionerId,
             worker_type |-> attempts[a].workerType,
             last_used |-> <<now'>>]
       /\ client_queues' = client_queues
       /\ createCalls' = createCalls

\* C21: of a queue that exists, _ensureQueueAndMetadata makes no setMetadata
\* and no createQueue call, and leaves meta-data and messages as they are,
\* exactly when the stored identifiers are the arguments and last_used is
\* less than 23 hours old; otherwise the setMetadata call it completes with
\* leaves the given identifiers and the current time as the meta-data, and
\* the messages as they are.
C21_NoOpExactlyWhenUpToDate == [][ReadsUpToDateOnly /\ WritesCurrent]_vars

\* the 7 queues were found with meta-data 23 hours old, a first call has set
\* the meta-data of each, and after a reset of the cache a second call has
\* found them up to date and was answered at once
C21_Witness ==
  /\ preexisting = EnsureShards
  /\ Len(attempts) = 2
  /\ attempts[1].state = "fulfilled"
  /\ attempts[2].state = "fulfilled"
  /\ Len(calls) = 2
  /\ calls[2].how = "created"
  /\ calls[2].result.status = "ok"
  /\ \A n \in EnsureShards :
       /\ createCalls[n] = 0
       /\ client_metadata[n].last_used = <<now>>

\* C22: with no service error, a queue that is not found by the getMetadata
\* call or by the setMetadata call of _ensureQueueAndMetadata is created,
\* and no ensurePendingQueue promise is rejected.
C22_NotFoundIsCreated ==
  faults = 0 => \A a \in DOMAIN attempts : attempts[a].state # "rejected"

\* the step is a createQueue call of _ensureQueueAndMetadata on a queue that
\* exists by now, which the catch handler lets pass
CreateQueueAlreadyExists(a, i) ==
  /\ Len(attempts') = Len(attempts)
  /\ attempts[a].pc[i] = "createQueue"
  /\ attempts'[a].pc[i] = "done"
  /\ ~QueueNotFound(ShardQueue(attempts[a], i))

\* the step is a createQueue call of _ensureQueueAndMetadata that fails
CreateQueueFails(a, i) ==
  /\ Len(attempts') = Len(attempts)
  /\ attempts[a].pc[i] = "createQueue"
  /\ attempts'[a].pc[i] = "failed"

\* the calls of ensurePendingQueue that were given promise a
CallsOf(a) == {k \in DOMAIN calls : calls[k].attempt = a}

\* C23: a createQueue call of _ensureQueueAndMetadata that fails with
\* QueueAlreadyExists reports nothing and lets the ensure go on to success;
\* one that fails with another error is reported to the monitor, the promise
\* of the ensure is rejected, its callers get an error and the cache does
\* not hold the promise.
C23_CreateFailureReportedUnlessExists ==
  [][\A a \in DOMAIN attempts : \A i \in DOMAIN PRIORITIES :
       /\ CreateQueueAlreadyExists(a, i) =>
            /\ reported' = reported
            /\ queues' = queues
            /\ attempts'[a].state = Settle(attempts'[a].pc, attempts[a].state)
            /\ attempts[a].state = "pending" => attempts'[a].state # "rejected"
       /\ CreateQueueFails(a, i) =>
            /\ reported' > reported
            /\ attempts'[a].state = "rejected"
            /\ \A k \in CallsOf(a) : calls'[k].result.status = "error"
            /\ queues'[cacheId(attempts[a].provisionerId, attempts[a].workerType)] # a
    ]_vars

\* a createQueue call has failed with a service error: the error was
\* reported by _ensureQueueAndMetadata and by ensurePendingQueue, the caller
\* got an error and the cache is empty
C23_Witness ==
  /\ preexisting = {}
  /\ faults = 1
  /\ reported = 2
  /\ Len(attempts) = 1
  /\ attempts[1].state = "rejected"
  /\ \E n \in EnsureShards : createCalls[n] = 1
  /\ calls[1].result.status = "error"
  /\ queues[EnsureId] = 0


\* the handle of delivery d in the next state
HandleAfter(d) == CHOOSE e \in delivered' : e.popReceipt = d.popReceipt

\* the step is a call of remove() or release() through handle d
CallThrough(d) == HandleAfter(d).late # d.late

C25_LastUsedWithin48Hours ==
  \A a \in DOMAIN attempts :
    (/\ attempts[a].state = "fulfilled"
     /\ queues[cacheId(attempts[a].provisionerId, attempts[a].workerType)] = a) =>
       \A i \in DOMAIN PRIORITIES :
         /\ ~QueueNotFound(ShardQueue(attempts[a], i))
         /\ now - client_metadata[ShardQueue(attempts[a], i)].last_used[1] <= MaxBehind

\* the promise that found meta-data a millisecond less than 23 hours old is
\* still in the cache 25 hours later, the callback of the timer being due
C25_Witness ==
  /\ now = QueueResetInterval
  /\ resets = 0
  /\ queues[EnsureId] = 1
  /\ attempts[1].state = "fulfilled"
  /\ \A n \in EnsureShards :
       now - client_metadata[n].last_used[1] = MaxBehind - 1

\* a run of deleteUnusedWorkerQueues is over
GcOver == gc.pc = "idle" /\ gc.runs > 0

\* the run listed every page, returned the number of deleteQueue calls that
\* completed, and left no queue that its filter marks and that is empty
SweptEveryPage ==
  /\ gc.marker = 0
  /\ gc.failed = {}
  /\ LeftUnswept = {}
  /\ gc.deleted = Cardinality({g.name : g \in gc.gone})

\* C26: a run of deleteUnusedWorkerQueues follows the marker of listQueues
\* until a listing has none: once it is over every page was listed, every
\* queue that is marked by the filter and empty is deleted, and the number
\* returned is the number of deleteQueue calls that completed.
C26_FollowsMarkerToTheEnd == GcOver => SweptEveryPage

\* C27: while the fulfilled promise of a pair is in the cache, the 7 queues
\* of the pair exist, whatever deleteUnusedWorkerQueues does meanwhile, and
\* no putPendingMessage for the pair ends with QueueNotFound.
C27_CachedQueuesExist ==
  /\ \A a \in DOMAIN attempts :
       (/\ attempts[a].state = "fulfilled"
        /\ queues[cacheId(attempts[a].provisionerId, attempts[a].workerType)] = a) =>
          \A i \in DOMAIN PRIORITIES : ~QueueNotFound(ShardQueue(attempts[a], i))
  /\ \A k \in DOMAIN putLog : putLog[k].outcome # "QueueNotFound"

\* the message of entry k of putLog is stored in its queue
Stored(k) ==
  /\ ~QueueNotFound(putLog[k].queue)
  /\ \E i \in DOMAIN client_queues[putLog[k].queue] :
       client_queues[putLog[k].queue][i].messageId = putLog[k].messageId

Rejects(a) == attempts[a].state = "pending" /\ attempts'[a].state = "rejected"

\* C29: when a promise of ensurePendingQueue is rejected, no entry of the
\* cache but the one that holds that promise changes: the entry of a newer
\* promise for the same pair, cached after a reset, and the entries of the
\* other pairs stay.
C29_EvictsOwnEntryOnly ==
  [][\A a \in DOMAIN attempts :
       Rejects(a) => \A id \in DOMAIN queues : queues[id] # a => queues'[id] = queues[id]
    ]_vars

\* call c was made for the key of refresh r, by the call that started r or
\* a later one, and no more than 20 seconds after r was started
InWindowOf(c, r) ==
  /\ countCalls[c].key = countRefreshes[r].key
  /\ \E c0 \in DOMAIN countCalls : countCalls[c0].refresh = r /\ c0 <= c
  /\ countCalls[c].at - countRefreshes[r].started <= CountMaxAge

\* C30: after a refresh of a key has failed, every countPendingMessages call
\* for the key made no more than 20 seconds after the refresh started awaits
\* the promise of that refresh, so it fails with its error, starts no
\* refresh of its own and does not return the count known before; the first
\* call made later than that starts a new refresh.
C30_FailedRefreshIsKept ==
  \A r \in DOMAIN countRefreshes :
    countRefreshes[r].state = "rejected" =>
      \A c \in DOMAIN countCalls :
        /\ InWindowOf(c, r) =>
              /\ countCalls[c].awaits = r
              /\ countCalls[c].refresh \in {0, r}
              /\ CountResult(c).state = "rejected"
        /\ (/\ countCalls[c].key = countRefreshes[r].key
            /\ countCalls[c].lastKnown = r
            /\ countCalls[c].at - countRefreshes[r].started > CountMaxAge)
              => countCalls[c].refresh > r

\* the first refresh of a key failed; the call that started it and a call
\* made 10 seconds later both got its error, and a call made 25 seconds
\* after its start has started the second refresh
C30_Witness ==
  \E c1, c2, c3 \in DOMAIN countCalls :
    /\ c1 < c2 /\ c2 < c3
    /\ countCalls[c1].key = countCalls[c2].key /\ countCalls[c2].key = countCalls[c3].key
    /\ countCalls[c1].refresh = 1
    /\ countRefreshes[1].state = "rejected"
    /\ countCalls[c2].at = countCalls[c1].at + 10000
    /\ countCalls[c2].refresh = 0
    /\ countCalls[c2].awaits = 1
    /\ countCalls[c3].at = countCalls[c1].at + 25000
    /\ countCalls[c3].refresh = 2
====
